---- MODULE Spec2Model ----
(***************************************************************************)
(* Verification model of the whisper diarization service:                  *)
(*   - the interval overlap matchers and the result fusers                 *)
(*     (ParallelDiarizationService, DiarizationService, OriginalDiarizer), *)
(*   - the task lifecycle of ParallelDiarizationService,                    *)
(*   - the batch coordinator BatchProcessor.                                *)
(* Times are whole time units; a missing value (Python None, a missing     *)
(* dict key) is a distinguished string.                                    *)
(***************************************************************************)
EXTENDS Integers, Sequences, FiniteSets, TLC

\* ------------------------------------------------------------------ bounds
\* Largest time stamp of a segment or a turn.
MaxT == 2
\* Longest turn sequence handed to a matcher on its own.
MaxTurns == 2
\* Longest segment sequence handed to a fuser.
MaxSegs == 2
\* Longest turn sequence handed to a fuser.
MaxFuseTurns == 1
\* Calls of process_audio_parallel that register a task.
MaxTasks == 2
\* Largest max_workers a ParallelDiarizationService is constructed with.
MaxWorkers == 2
\* Batches handed to one BatchProcessor.
MaxBatches == 1
\* Most files of one batch.
MaxFiles == 3
\* Largest max_workers (MAX_CONCURRENT_JOBS) of a BatchProcessor.
MaxBatchWorkers == 2
\* Latest time, in seconds, at which _calculate_progress is called.
MaxClock == 8
\* Most segments of a result handed to a converter.
MaxCues == 2
\* Batches one BatchProcessor is handed while it processes another.
MaxCoBatches == 2
\* Most files of each of these batches.
MaxCoFiles == 2
\* Latest time, in hours, of a time stamp and of a call of cleanup_old_jobs.
MaxHour == 3
\* Largest max_age_hours cleanup_old_jobs is called with.
MaxAgeHours == 2

\* ------------------------------------------------------------------ values
None == "<None>"
Absent == "<absent>"
NoId == -1

Max(a, b) == IF a >= b THEN a ELSE b
Min(a, b) == IF a <= b THEN a ELSE b

SpeakerIds == {"A", "B"}
Times == 0 .. MaxT
\* A transcript segment of the recognizer: a dict with "start" and "end".
Segments == {s \in [start : Times, end : Times] : s.start <= s.end}
\* A SpeakerSegment of the diarizer.
SpeakerSegments ==
    {t \in [start_time : Times, end_time : Times, speaker_id : SpeakerIds] :
        t.start_time <= t.end_time}

SeqsUpTo(S, n) == UNION {[1 .. k -> S] : k \in 0 .. n}

VARIABLES
    segments,   \* the recognizer's segment sequence handed to a matcher or fuser
    turns,      \* the diarizer's turn sequence handed to it
    impl,       \* which implementation has run ("none" before the call)
    best,       \* what the matcher returned
    out,        \* what the fuser returned
    \* ParallelDiarizationService
    max_workers,    \* self.max_workers, the size of self.thread_pool
    initialized,    \* self.initialized
    pool_shutdown,  \* self.thread_pool has been shut down
    cleaning,       \* cleanup() is inside thread_pool.shutdown(wait=True)
    next_task,      \* the next task id process_audio_parallel hands out
    task,           \* the ProcessingTask objects, by task id
    active_tasks,   \* the keys of self.active_tasks
    audio,          \* what the two analyzers make of each task's audio file
    pc,             \* where each process_audio_parallel call stands
    fut,            \* the two thread pool futures of each task
    pool_queue,     \* the work queue of self.thread_pool
    gather,         \* the future of asyncio.gather of each task
    returned,       \* the TranscriptionResult segments each call returned
    stats,          \* self.processing_stats
    call_error,     \* what the last call that registered no task raised
    snapshot,       \* what the last get_task_status returned
    \* BatchProcessor, and the event loop its coroutines run on
    bp_max_workers, \* self.max_workers
    next_batch,     \* the next batch id process_batch hands out
    job,            \* the batch job dicts, by batch id
    active_jobs,    \* the keys of self.active_jobs
    completed_jobs, \* the keys of self.completed_jobs
    failed_jobs,    \* the keys of self.failed_jobs
    sem,            \* the asyncio.Semaphore of each _process_batch_async
    file,           \* the _process_single_file task of each file of a batch
    bdone,          \* how many file tasks asyncio.gather of a batch has seen end
    ready,          \* the ready queue of the event loop
    \* _calculate_progress, called for one task as time passes
    clock,          \* time.time(), in seconds
    ptask,          \* the status and start_time of the task it is called for
    progress,       \* what the last call returned
    \* OutputFormatConverter
    result,         \* the segments of the result handed to a converter
    format,         \* which converter has run ("none" before the call)
    rendered,       \* the text it returned, character by character
    include_speakers,   \* the include_speakers argument of the call
    \* the routes and the queries
    submitted,      \* how many uploads transcribe_parallel_async has accepted
    answer,         \* what the last query of a registry or of a list returned
    \* cleanup_old_jobs
    utcnow,         \* datetime.utcnow(), in hours
    stamps,         \* the time stamps of the batches, in hours
    cleanup_error   \* what the last cleanup_old_jobs raised, None if nothing

fuseVars == <<segments, turns, impl, best, out>>
taskVars == <<max_workers, initialized, pool_shutdown, cleaning, next_task, task,
              active_tasks, audio, pc, fut, pool_queue, gather, returned, stats,
              call_error, snapshot>>
batchVars == <<bp_max_workers, next_batch, job, active_jobs, completed_jobs,
               failed_jobs, sem, file, bdone, ready>>
progressVars == <<clock, ptask, progress>>
formatVars == <<result, format, rendered, include_speakers>>
queryVars == <<submitted, answer>>
cleanupVars == <<utcnow, stamps, cleanup_error>>
moreVars == <<progressVars, formatVars, queryVars, cleanupVars>>

vars == <<fuseVars, taskVars, batchVars, moreVars>>

BatchIds == 1 .. Max(MaxBatches, MaxCoBatches)
FileIds == 1 .. MaxFiles

TaskIds == 1 .. MaxTasks

\* An optional value: << >> is Python's None, <<x>> is the value x.
NoneV == << >>
Some(x) == <<x>>

\* No matcher or fuser call is modelled.
FuseIdle ==
    /\ segments = << >> /\ turns = << >> /\ impl = "none"
    /\ best = None /\ out = << >>

NoTask ==
    [status |-> "none", end_time |-> FALSE, error |-> None,
     whisper_result |-> NoneV, diarization_result |-> NoneV]
NoFuture == [state |-> "none", result |-> NoneV]
NotFound == [found |-> FALSE, status |-> "none", end_time |-> FALSE, error |-> None]

\* What an analyzer makes of an audio file: a result, or it raises.
Failure == [ok |-> FALSE, result |-> << >>]
MockSegments == << [start |-> 0, end |-> 1], [start |-> 1, end |-> 2] >>
MockSpeakers == << [start_time |-> 0, end_time |-> 1, speaker_id |-> "A"] >>
WhisperOutcomes == {Failure, [ok |-> TRUE, result |-> MockSegments]}
DiarizationOutcomes ==
    {Failure, [ok |-> TRUE, result |-> << >>], [ok |-> TRUE, result |-> MockSpeakers]}
NoAudio == [whisper |-> Failure, diarization |-> Failure]

\* ParallelDiarizationService.__init__ with max_workers = w.
Constructed(w) ==
    /\ max_workers = w
    /\ initialized = FALSE
    /\ pool_shutdown = FALSE
    /\ cleaning = FALSE
    /\ next_task = 1
    /\ task = [t \in TaskIds |-> NoTask]
    /\ active_tasks = {}
    /\ audio = [t \in TaskIds |-> NoAudio]
    /\ pc = [t \in TaskIds |-> "idle"]
    /\ fut = [t \in TaskIds |-> [whisper |-> NoFuture, diarization |-> NoFuture]]
    /\ pool_queue = << >>
    /\ gather = [t \in TaskIds |-> "none"]
    /\ returned = [t \in TaskIds |-> NoneV]
    /\ stats = [total_tasks |-> 0, completed_tasks |-> 0, failed_tasks |-> 0]
    /\ call_error = None
    /\ snapshot = NotFound

\* No ParallelDiarizationService is modelled.
TaskIdle == Constructed(1)

NoFileResult == [status |-> "none", result |-> NoneV]
NoJob ==
    [status |-> "none", total_files |-> 0, completed_files |-> 0, failed_files |-> 0,
     results |-> [f \in FileIds |-> NoFileResult], summary |-> FALSE]
NoFile ==
    [pc |-> "none", whisper |-> "none", diarization |-> "none",
     nfinished |-> 0, gather |-> "none"]
NoSem == [value |-> 0, waiters |-> << >>]

\* BatchProcessor.__init__ with settings.MAX_CONCURRENT_JOBS = w, on an event
\* loop with nothing to run.
BatchConstructed(w) ==
    /\ bp_max_workers = w
    /\ next_batch = 1
    /\ job = [b \in BatchIds |-> NoJob]
    /\ active_jobs = {} /\ completed_jobs = {} /\ failed_jobs = {}
    /\ sem = [b \in BatchIds |-> NoSem]
    /\ file = [b \in BatchIds |-> [f \in FileIds |-> NoFile]]
    /\ bdone = [b \in BatchIds |-> 0]
    /\ ready = << >>

\* No BatchProcessor is modelled.
BatchIdle == BatchConstructed(1)

\* _calculate_progress is not called.
NoProgressTask == [status |-> "none", start_time |-> 0]
ProgressIdle == clock = 0 /\ ptask = NoProgressTask /\ progress = NoneV

\* No converter is called.
FormatIdle ==
    result = << >> /\ format = "none" /\ rendered = << >> /\ include_speakers = TRUE

\* No upload has been accepted and no query made.
NoAnswer == [query |-> "none", value |-> NoneV]
QueryIdle == submitted = 0 /\ answer = NoAnswer

\* No batch has a time stamp, cleanup_old_jobs is not called.
NoStamps == [started_at |-> 0, ended_at |-> 0]
CleanupIdle ==
    utcnow = 0 /\ stamps = [b \in BatchIds |-> NoStamps] /\ cleanup_error = None

MoreIdle == ProgressIdle /\ FormatIdle /\ QueryIdle /\ CleanupIdle

\* ---------------------------------------------------------------- matchers

\* ParallelDiarizationService._find_best_speaker_for_segment: the loop from
\* turn i on, with the best speaker and overlap found so far.
RECURSIVE ParallelBestFrom(_, _, _, _, _)
ParallelBestFrom(segment, speaker_segments, i, best_speaker, best_overlap) ==
    IF i > Len(speaker_segments) THEN best_speaker
    ELSE LET speaker_seg == speaker_segments[i]
             overlap_start == Max(segment.start, speaker_seg.start_time)
             overlap_end == Min(segment.end, speaker_seg.end_time)
             overlap == overlap_end - overlap_start
         IN IF overlap_end > overlap_start /\ overlap > best_overlap
            THEN ParallelBestFrom(segment, speaker_segments, i + 1,
                                  speaker_seg.speaker_id, overlap)
            ELSE ParallelBestFrom(segment, speaker_segments, i + 1,
                                  best_speaker, best_overlap)

ParallelFindBestSpeaker(segment, speaker_segments) ==
    ParallelBestFrom(segment, speaker_segments, 1, None, 0)

\* The comparison of DiarizationService._find_best_speaker_for_segment that
\* decides whether a turn replaces the best one found so far.
BetterLastWins(overlap, max_overlap) == overlap >= max_overlap /\ overlap > 0
Better(overlap, max_overlap) == overlap > max_overlap

\* DiarizationService._find_best_speaker_for_segment.
RECURSIVE BestFrom(_, _, _, _, _)
BestFrom(segment, speaker_segments, i, best_speaker, max_overlap) ==
    IF i > Len(speaker_segments) THEN best_speaker
    ELSE LET speaker_seg == speaker_segments[i]
             overlap_start == Max(segment.start, speaker_seg.start_time)
             overlap_end == Min(segment.end, speaker_seg.end_time)
             overlap == Max(0, overlap_end - overlap_start)
         IN IF Better(overlap, max_overlap)
            THEN BestFrom(segment, speaker_segments, i + 1,
                          speaker_seg.speaker_id, overlap)
            ELSE BestFrom(segment, speaker_segments, i + 1,
                          best_speaker, max_overlap)

FindBestSpeaker(segment, speaker_segments) ==
    BestFrom(segment, speaker_segments, 1, None, 0)

\* The matching loop of OriginalDiarizer._align_speakers (lines 184-198); its
\* turns are dicts with "start", "end" and "speaker".
RECURSIVE OriginalBestFrom(_, _, _, _, _)
OriginalBestFrom(segment, speaker_segments, i, best_speaker, max_overlap) ==
    IF i > Len(speaker_segments) THEN best_speaker
    ELSE LET speaker_seg == speaker_segments[i]
             overlap_start == Max(segment.start, speaker_seg.start_time)
             overlap_end == Min(segment.end, speaker_seg.end_time)
             overlap == Max(0, overlap_end - overlap_start)
         IN IF overlap > max_overlap
            THEN OriginalBestFrom(segment, speaker_segments, i + 1,
                                  speaker_seg.speaker_id, overlap)
            ELSE OriginalBestFrom(segment, speaker_segments, i + 1,
                                  best_speaker, max_overlap)

\* A matching loop that starts from max_overlap = -1.
OriginalFindBestSpeakerFromBelow(segment, speaker_segments) ==
    OriginalBestFrom(segment, speaker_segments, 1, None, -1)

OriginalFindBestSpeaker(segment, speaker_segments) ==
    OriginalBestFrom(segment, speaker_segments, 1, None, 0)

\* ------------------------------------------------------------------ fusers

\* speaker or "Unknown" of _combine_results.
OrUnknown(speaker) == IF speaker = None THEN "Unknown" ELSE speaker

\* ParallelDiarizationService._combine_results, the segments it builds.
CombineResultsDropUnmatched(whisper_segments, diarization_result) ==
    LET kept == {i \in 1 .. Len(whisper_segments) :
                    ParallelFindBestSpeaker(whisper_segments[i], diarization_result) # None}
        RECURSIVE Build(_)
        Build(i) ==
            IF i > Len(whisper_segments) THEN << >>
            ELSE IF i \in kept
                 THEN << [id |-> i,
                          start |-> whisper_segments[i].start,
                          end |-> whisper_segments[i].end,
                          speaker |-> ParallelFindBestSpeaker(whisper_segments[i],
                                                              diarization_result)] >>
                      \o Build(i + 1)
                 ELSE Build(i + 1)
    IN Build(1)

CombineResults(whisper_segments, diarization_result) ==
    [i \in 1 .. Len(whisper_segments) |->
        [id |-> i,
         start |-> whisper_segments[i].start,
         end |-> whisper_segments[i].end,
         speaker |-> OrUnknown(ParallelFindBestSpeaker(whisper_segments[i],
                                                       diarization_result))]]

\* DiarizationService._enhanced_speaker_mapping, the segments it builds.
EnhancedSpeakerMapping(whisper_segments, speaker_segments) ==
    [i \in 1 .. Len(whisper_segments) |->
        LET speaker_id == FindBestSpeaker(whisper_segments[i], speaker_segments)
        IN [id |-> i - 1,
            start |-> whisper_segments[i].start,
            end |-> whisper_segments[i].end,
            speaker |-> IF speaker_id # None THEN "Speaker_" \o speaker_id
                        ELSE "Unknown"]]

\* OriginalDiarizer._align_speakers, the segments of the result it returns:
\* without turns the transcription is returned as it is (no "speaker" key).
AlignSpeakers(transcription_segments, speaker_segments) ==
    IF speaker_segments = << >>
    THEN [i \in 1 .. Len(transcription_segments) |->
            [id |-> NoId,
             start |-> transcription_segments[i].start,
             end |-> transcription_segments[i].end,
             speaker |-> Absent]]
    ELSE [i \in 1 .. Len(transcription_segments) |->
            LET best_speaker == OriginalFindBestSpeaker(transcription_segments[i],
                                                        speaker_segments)
            IN [id |-> NoId,
                start |-> transcription_segments[i].start,
                end |-> transcription_segments[i].end,
                speaker |-> IF best_speaker = None THEN "unknown"
                            ELSE best_speaker]]

\* DiarizationService._align_speakers, the segments of the result it
\* returns: the recognizer's segments as they are, without a speaker.
ServiceAlignSpeakers(whisper_segments, speaker_segments) ==
    [i \in 1 .. Len(whisper_segments) |->
        [id |-> NoId,
         start |-> whisper_segments[i].start,
         end |-> whisper_segments[i].end,
         speaker |-> Absent]]

\* ------------------------------------------- the matchers, called on inputs

InitMatch ==
    /\ segments \in [1 .. 1 -> Segments]
    /\ turns \in SeqsUpTo(SpeakerSegments, MaxTurns)
    /\ impl = "none"
    /\ best = None
    /\ out = << >>
    /\ TaskIdle
    /\ BatchIdle
    /\ MoreIdle

CallParallelMatcher ==
    /\ impl = "none"
    /\ impl' = "parallel"
    /\ best' = ParallelFindBestSpeaker(segments[1], turns)
    /\ UNCHANGED <<segments, turns, out, taskVars, batchVars, moreVars>>

CallMatcher ==
    /\ impl = "none"
    /\ impl' = "service"
    /\ best' = FindBestSpeaker(segments[1], turns)
    /\ UNCHANGED <<segments, turns, out, taskVars, batchVars, moreVars>>

CallOriginalMatcher ==
    /\ impl = "none"
    /\ impl' = "original"
    /\ best' = OriginalFindBestSpeaker(segments[1], turns)
    /\ UNCHANGED <<segments, turns, out, taskVars, batchVars, moreVars>>

NextMatch == CallParallelMatcher \/ CallMatcher \/ CallOriginalMatcher

SpecMatch == InitMatch /\ [][NextMatch]_vars

\* -------------------------------------------- the fusers, called on inputs

InitFuse ==
    /\ segments \in SeqsUpTo(Segments, MaxSegs)
    /\ turns \in SeqsUpTo(SpeakerSegments, MaxFuseTurns)
    /\ impl = "none"
    /\ best = None
    /\ out = << >>
    /\ TaskIdle
    /\ BatchIdle
    /\ MoreIdle

CallCombineResults ==
    /\ impl = "none"
    /\ impl' = "parallel"
    /\ out' = CombineResults(segments, turns)
    /\ UNCHANGED <<segments, turns, best, taskVars, batchVars, moreVars>>

CallEnhancedSpeakerMapping ==
    /\ impl = "none"
    /\ impl' = "service"
    /\ out' = EnhancedSpeakerMapping(segments, turns)
    /\ UNCHANGED <<segments, turns, best, taskVars, batchVars, moreVars>>

\* An aligner that writes the speaker into the caller's segments.
CallAlignSpeakersInPlace ==
    /\ impl = "none"
    /\ impl' = "original"
    /\ out' = AlignSpeakers(segments, turns)
    /\ segments' = out'
    /\ UNCHANGED <<turns, best, taskVars, batchVars, moreVars>>

CallAlignSpeakers ==
    /\ impl = "none"
    /\ impl' = "original"
    /\ out' = AlignSpeakers(segments, turns)
    /\ UNCHANGED <<segments, turns, best, taskVars, batchVars, moreVars>>

CallServiceAlignSpeakers ==
    /\ impl = "none"
    /\ impl' = "service_basic"
    /\ out' = ServiceAlignSpeakers(segments, turns)
    /\ UNCHANGED <<segments, turns, best, taskVars, batchVars, moreVars>>

NextFuse ==
    \/ CallCombineResults
    \/ CallEnhancedSpeakerMapping
    \/ CallAlignSpeakers
    \/ CallServiceAlignSpeakers

SpecFuse == InitFuse /\ [][NextFuse]_vars

\* ------------------------------------------ ParallelDiarizationService

Kinds == {"whisper", "diarization"}
Other(k) == IF k = "whisper" THEN "diarization" ELSE "whisper"
ErrorOf(k) == IF k = "whisper" THEN "RecognitionError" ELSE "DiarizationError"
Finished == {"ok", "failed"}
Terminal == {"completed", "failed", "cancelled"}

InitTask ==
    /\ FuseIdle
    /\ BatchIdle
    /\ \E w \in 1 .. MaxWorkers : Constructed(w)
    /\ MoreIdle

\* initialize(): _initialize_pools submits a test job, which a pool that was
\* shut down refuses, and then initialize raises.
Initialize ==
    /\ ~cleaning
    /\ initialized' = IF pool_shutdown THEN initialized ELSE TRUE
    /\ UNCHANGED <<fuseVars, moreVars, batchVars, max_workers, pool_shutdown, cleaning, next_task, task,
                   active_tasks, audio, pc, fut, pool_queue, gather, returned,
                   stats, call_error, snapshot>>

\* A process_audio_parallel that counts the call before it checks it.
CallRejectedCounted ==
    /\ ~cleaning
    /\ \/ ~initialized /\ call_error' = "RuntimeError"
       \/ initialized /\ call_error' = "FileNotFoundError"
    /\ stats.total_tasks < MaxTasks
    /\ stats' = [stats EXCEPT !.total_tasks = @ + 1]
    /\ UNCHANGED <<fuseVars, moreVars, batchVars, max_workers, initialized, pool_shutdown, cleaning,
                   next_task, task, active_tasks, audio, pc, fut, pool_queue,
                   gather, returned, snapshot>>

\* process_audio_parallel up to the checks of lines 181-186, when one raises.
CallRejected ==
    /\ ~cleaning
    /\ \/ ~initialized /\ call_error' = "RuntimeError"
       \/ initialized /\ call_error' = "FileNotFoundError"
    /\ UNCHANGED <<fuseVars, moreVars, batchVars, max_workers, initialized, pool_shutdown, cleaning,
                   next_task, task, active_tasks, audio, pc, fut, pool_queue,
                   gather, returned, stats, snapshot>>

\* process_audio_parallel from its start to the await of asyncio.gather: the
\* task is created and registered, and _run_parallel_processing submits the
\* Whisper job and then the diarization job to the thread pool.
Call(t) ==
    /\ ~cleaning
    /\ initialized
    /\ t = next_task
    /\ next_task' = next_task + 1
    /\ \E w \in WhisperOutcomes, d \in DiarizationOutcomes :
          audio' = [audio EXCEPT ![t] = [whisper |-> w, diarization |-> d]]
    /\ task' = [task EXCEPT ![t] = [NoTask EXCEPT !.status = "processing"]]
    /\ active_tasks' = active_tasks \cup {t}
    /\ stats' = [stats EXCEPT !.total_tasks = @ + 1]
    /\ pool_queue' = pool_queue \o << <<t, "whisper">>, <<t, "diarization">> >>
    /\ fut' = [fut EXCEPT ![t] = [whisper |-> [NoFuture EXCEPT !.state = "queued"],
                                  diarization |-> [NoFuture EXCEPT !.state = "queued"]]]
    /\ gather' = [gather EXCEPT ![t] = "pending"]
    /\ pc' = [pc EXCEPT ![t] = "gather"]
    /\ UNCHANGED <<fuseVars, moreVars, batchVars, max_workers, initialized, pool_shutdown, cleaning,
                   returned, call_error, snapshot>>

Running == {j \in TaskIds \X Kinds : fut[j[1]][j[2]].state = "running"}

\* ThreadPoolExecutor(max_workers): a worker thread is free to take a job.
WorkerFree == Cardinality(Running) < max_workers

\* A worker thread of the pool takes the job at the head of the work queue.
WorkerStart ==
    /\ pool_queue # << >>
    /\ WorkerFree
    /\ LET j == Head(pool_queue)
       IN fut' = [fut EXCEPT ![j[1]][j[2]].state = "running"]
    /\ pool_queue' = Tail(pool_queue)
    /\ UNCHANGED <<fuseVars, moreVars, batchVars, max_workers, initialized, pool_shutdown, cleaning,
                   next_task, task, active_tasks, audio, pc, gather, returned,
                   stats, call_error, snapshot>>

\* Whether _process_whisper or _process_diarization raises on an outcome.
RaisesOnEmpty(k, outcome) ==
    ~outcome.ok \/ (k = "diarization" /\ outcome.result = << >>)
Raises(k, outcome) == ~outcome.ok

\* asyncio.gather without return_exceptions, when one of its two futures
\* completes: the first exception is its result at once, the results are
\* its result once both futures have one.
GatherAfter(g, k, raised, other_state) ==
    IF g # "pending" THEN g
    ELSE IF raised THEN ErrorOf(k)
    ELSE IF other_state = "ok" THEN "ok" ELSE "pending"

\* A job of the pool ends: _process_whisper or _process_diarization returns
\* or raises, and the wrapped future tells asyncio.gather.
JobFinish(t, k) ==
    /\ fut[t][k].state = "running"
    /\ LET raised == Raises(k, audio[t][k])
       IN /\ fut' = [fut EXCEPT ![t][k] =
                        IF raised THEN [state |-> "failed", result |-> NoneV]
                        ELSE [state |-> "ok", result |-> Some(audio[t][k].result)]]
          /\ gather' = [gather EXCEPT ![t] =
                          GatherAfter(@, k, raised, fut[t][Other(k)].state)]
    /\ UNCHANGED <<fuseVars, moreVars, batchVars, max_workers, initialized, pool_shutdown, cleaning,
                   next_task, task, active_tasks, audio, pc, pool_queue, returned,
                   stats, call_error, snapshot>>

\* What process_audio_parallel returns once asyncio.gather has ended: the
\* result of _combine_results, or nothing when it raises.
ResultOfPartial(t) ==
    IF fut[t].whisper.state = "ok"
    THEN Some(CombineResults(fut[t].whisper.result[1],
                             IF fut[t].diarization.state = "ok"
                             THEN fut[t].diarization.result[1] ELSE << >>))
    ELSE NoneV
ResultOf(t) ==
    IF gather[t] = "ok"
    THEN Some(CombineResults(fut[t].whisper.result[1], fut[t].diarization.result[1]))
    ELSE NoneV

\* _update_stats that computes the average before it counts the task.
UpdateStatsDividesFirst(s, success) ==
    IF success THEN [s EXCEPT !.completed_tasks = @ + 1]
    ELSE IF s.completed_tasks = 0 THEN s
    ELSE [s EXCEPT !.failed_tasks = @ + 1]

\* _update_stats(processing_time, success): the task is counted, and then
\* the average is divided by completed_tasks; when that is 0 the
\* ZeroDivisionError is caught and logged inside _update_stats.
UpdateStats(s, success) ==
    IF success THEN [s EXCEPT !.completed_tasks = @ + 1]
    ELSE [s EXCEPT !.failed_tasks = @ + 1]

\* A finally block that keeps the task of a call that raises.
UnregisterUnlessRaised(t) ==
    IF gather[t] = "ok" THEN active_tasks \ {t} ELSE active_tasks

\* The finally block of process_audio_parallel: the task is deleted from
\* active_tasks.
Unregister(t) == active_tasks \ {t}

\* process_audio_parallel from the end of asyncio.gather to its return or
\* raise (lines 213-246), the finally block included.
Resume(t) ==
    /\ ~cleaning
    /\ pc[t] = "gather"
    /\ gather[t] # "pending"
    /\ IF gather[t] = "ok"
       THEN /\ task' = [task EXCEPT ![t] =
                          [@ EXCEPT !.whisper_result = fut[t].whisper.result,
                                    !.diarization_result = fut[t].diarization.result,
                                    !.status = "completed",
                                    !.end_time = TRUE]]
            /\ stats' = UpdateStats(stats, TRUE)
            /\ pc' = [pc EXCEPT ![t] = "returned"]
       ELSE /\ task' = [task EXCEPT ![t] =
                          [@ EXCEPT !.status = "failed",
                                    !.error = gather[t],
                                    !.end_time = TRUE]]
            /\ stats' = UpdateStats(stats, FALSE)
            /\ pc' = [pc EXCEPT ![t] = "raised"]
    /\ returned' = [returned EXCEPT ![t] = ResultOf(t)]
    /\ active_tasks' = Unregister(t)
    /\ UNCHANGED <<fuseVars, moreVars, batchVars, max_workers, initialized, pool_shutdown, cleaning,
                   next_task, audio, fut, pool_queue, gather, call_error, snapshot>>

\* cleanup() up to thread_pool.shutdown(wait=True): every active task is
\* marked cancelled, and the event loop thread then blocks in the shutdown.
CleanupBegin ==
    /\ ~cleaning
    /\ task' = [t \in TaskIds |->
                  IF t \in active_tasks
                  THEN [task[t] EXCEPT !.status = "cancelled", !.end_time = TRUE]
                  ELSE task[t]]
    /\ pool_shutdown' = TRUE
    /\ cleaning' = TRUE
    /\ UNCHANGED <<fuseVars, moreVars, batchVars, max_workers, initialized, next_task, active_tasks,
                   audio, pc, fut, pool_queue, gather, returned, stats,
                   call_error, snapshot>>

\* cleanup() from the return of thread_pool.shutdown(wait=True), which waits
\* for every queued and running job of the pool.
CleanupEnd ==
    /\ cleaning
    /\ pool_queue = << >> /\ Running = {}
    /\ initialized' = FALSE
    /\ cleaning' = FALSE
    /\ UNCHANGED <<fuseVars, moreVars, batchVars, max_workers, pool_shutdown, next_task, task,
                   active_tasks, audio, pc, fut, pool_queue, gather, returned,
                   stats, call_error, snapshot>>

\* What get_task_status(task_id) returns: the task's dict when the task is
\* in active_tasks, None otherwise.
StatusReport(t) ==
    IF t \in active_tasks
    THEN [found |-> TRUE, status |-> task[t].status,
          end_time |-> task[t].end_time, error |-> task[t].error]
    ELSE NotFound

\* get_task_status(task_id).
GetTaskStatus(t) ==
    /\ ~cleaning
    /\ snapshot' = StatusReport(t)
    /\ UNCHANGED <<fuseVars, moreVars, batchVars, max_workers, initialized, pool_shutdown, cleaning,
                   next_task, task, active_tasks, audio, pc, fut, pool_queue,
                   gather, returned, stats, call_error>>

NextTask ==
    \/ Initialize
    \/ CallRejected
    \/ \E t \in TaskIds : Call(t)
    \/ WorkerStart
    \/ \E t \in TaskIds, k \in Kinds : JobFinish(t, k)
    \/ \E t \in TaskIds : Resume(t)
    \/ CleanupBegin
    \/ CleanupEnd
    \/ \E t \in TaskIds : GetTaskStatus(t)

SpecTask == InitTask /\ [][NextTask]_vars

\* The thread pool runs its jobs and shutdown(wait=True) returns once they
\* have ended; the event loop runs its ready callbacks in the order they
\* were scheduled, so a call whose asyncio.gather has ended is resumed
\* after finitely many other callbacks, however often cleanup() blocks the
\* loop in between.
TaskFairness ==
    /\ WF_vars(WorkerStart)
    /\ \A t \in TaskIds, k \in Kinds : WF_vars(JobFinish(t, k))
    /\ \A t \in TaskIds : SF_vars(Resume(t))
    /\ WF_vars(CleanupEnd)

SpecTaskLive == SpecTask /\ TaskFairness

\* ------------------------------------- process_audio_parallel, by statement
\* get_task_status may be called from another thread. It takes task_lock,
\* but process_audio_parallel assigns the fields of its task without the
\* lock, so the reader can run between any two of the assignments.

\* Lines 213-221 or 231-232: the results are stored and fused and
\* task.status is assigned.
StoreStatus(t) ==
    /\ pc[t] = "gather"
    /\ gather[t] # "pending"
    /\ task' = [task EXCEPT ![t] =
                  IF gather[t] = "ok"
                  THEN [@ EXCEPT !.whisper_result = fut[t].whisper.result,
                                 !.diarization_result = fut[t].diarization.result,
                                 !.status = "completed"]
                  ELSE [@ EXCEPT !.status = "failed"]]
    /\ pc' = [pc EXCEPT ![t] = IF gather[t] = "ok" THEN "end_time" ELSE "error"]
    /\ UNCHANGED <<fuseVars, moreVars, batchVars, max_workers, initialized, pool_shutdown, cleaning,
                   next_task, active_tasks, audio, fut, pool_queue, gather, returned,
                   stats, call_error, snapshot>>

\* Line 233: task.error is assigned.
StoreError(t) ==
    /\ pc[t] = "error"
    /\ task' = [task EXCEPT ![t].error = gather[t]]
    /\ pc' = [pc EXCEPT ![t] = "end_time"]
    /\ UNCHANGED <<fuseVars, moreVars, batchVars, max_workers, initialized, pool_shutdown, cleaning,
                   next_task, active_tasks, audio, fut, pool_queue, gather, returned,
                   stats, call_error, snapshot>>

\* Line 222 or 234: task.end_time is assigned.
StoreEndTime(t) ==
    /\ pc[t] = "end_time"
    /\ task' = [task EXCEPT ![t].end_time = TRUE]
    /\ pc' = [pc EXCEPT ![t] = "stats"]
    /\ UNCHANGED <<fuseVars, moreVars, batchVars, max_workers, initialized, pool_shutdown, cleaning,
                   next_task, active_tasks, audio, fut, pool_queue, gather, returned,
                   stats, call_error, snapshot>>

\* Lines 224-229 or 236-240, and the finally block: the statistics are
\* updated and the task is deleted from active_tasks, both under task_lock,
\* and the call returns or raises.
Leave(t) ==
    /\ pc[t] = "stats"
    /\ stats' = UpdateStats(stats, gather[t] = "ok")
    /\ returned' = [returned EXCEPT ![t] = ResultOf(t)]
    /\ active_tasks' = Unregister(t)
    /\ pc' = [pc EXCEPT ![t] = IF gather[t] = "ok" THEN "returned" ELSE "raised"]
    /\ UNCHANGED <<fuseVars, moreVars, batchVars, max_workers, initialized, pool_shutdown, cleaning,
                   next_task, task, audio, fut, pool_queue, gather, call_error, snapshot>>

\* get_task_status(task_id) called on a reader thread.
ReaderGetTaskStatus(t) ==
    /\ snapshot' = StatusReport(t)
    /\ UNCHANGED <<fuseVars, moreVars, batchVars, max_workers, initialized, pool_shutdown, cleaning,
                   next_task, task, active_tasks, audio, pc, fut, pool_queue,
                   gather, returned, stats, call_error>>

NextThreads ==
    \/ Initialize
    \/ \E t \in TaskIds : Call(t)
    \/ WorkerStart
    \/ \E t \in TaskIds, k \in Kinds : JobFinish(t, k)
    \/ \E t \in TaskIds : StoreStatus(t)
    \/ \E t \in TaskIds : StoreError(t)
    \/ \E t \in TaskIds : StoreEndTime(t)
    \/ \E t \in TaskIds : Leave(t)
    \/ \E t \in TaskIds : ReaderGetTaskStatus(t)

SpecThreads == InitTask /\ [][NextThreads]_vars

\* ----------------------------------------------------- _calculate_progress
\* One task, started at time 1, is asked for its progress as time passes and
\* as its status changes. Times are whole seconds.

\* estimated_total, in seconds, and the cap of the estimate.
EstimatedTotal == 5
ProgressCap == 95

\* _calculate_progress(task) at time now.
CalculateProgressUncapped(t, now) ==
    IF t.status = "completed" THEN 100
    ELSE IF t.status = "failed" THEN 0
    ELSE IF t.start_time # 0
         THEN ((now - t.start_time) * 100) \div EstimatedTotal
         ELSE 0
CalculateProgress(t, now) ==
    IF t.status = "completed" THEN 100
    ELSE IF t.status = "failed" THEN 0
    ELSE IF t.start_time # 0
         THEN Min(ProgressCap, ((now - t.start_time) * 100) \div EstimatedTotal)
         ELSE 0

InitProgress ==
    /\ FuseIdle /\ TaskIdle /\ BatchIdle /\ FormatIdle /\ QueryIdle /\ CleanupIdle
    /\ clock = 1
    /\ ptask = [status |-> "processing", start_time |-> 1]
    /\ progress = NoneV

\* time.time() goes on.
Tick ==
    /\ clock < MaxClock
    /\ clock' = clock + 1
    /\ UNCHANGED <<fuseVars, taskVars, batchVars, formatVars, queryVars, ptask, progress, cleanupVars>>

\* process_audio_parallel (lines 221, 232) or cleanup (line 525) assigns
\* task.status.
SetStatus(st) ==
    /\ ptask.status = "processing"
    /\ ptask' = [ptask EXCEPT !.status = st]
    /\ UNCHANGED <<fuseVars, taskVars, batchVars, formatVars, queryVars, clock, progress, cleanupVars>>

\* get_task_status or get_active_tasks reports the progress of the task.
ReportProgress ==
    /\ progress' = Some(CalculateProgress(ptask, clock))
    /\ UNCHANGED <<fuseVars, taskVars, batchVars, formatVars, queryVars, clock, ptask, cleanupVars>>

NextProgress ==
    \/ Tick
    \/ \E st \in Terminal : SetStatus(st)
    \/ ReportProgress

SpecProgress == InitProgress /\ [][NextProgress]_vars

\* ------------------------------------------------ transcribe_parallel_async
\* The /transcribe/async route of parallel_routes.py saves the upload under a
\* new uuid, hands process_audio_parallel to the background tasks and
\* answers with that uuid as task_id; process_audio_parallel draws the id of
\* its task from uuid4() itself. The background calls run in the order of
\* the uploads: the k-th task is the one of the k-th upload.

\* file_id of the k-th upload: a uuid4, which no task id equals.
FileUuid(k) == MaxTasks + k

\* get_task_status(task_id) for any id.
StatusById(id) == IF id \in TaskIds THEN StatusReport(id) ELSE NotFound

\* transcribe_parallel_async accepts an upload and returns its file_id.
TranscribeParallelAsync ==
    /\ submitted < MaxTasks
    /\ submitted' = submitted + 1
    /\ UNCHANGED <<fuseVars, taskVars, batchVars, progressVars, formatVars, answer, cleanupVars>>

\* The background task of an accepted upload calls process_audio_parallel.
BackgroundCall(t) ==
    /\ t <= submitted
    /\ Call(t)

\* get_parallel_status(task_id) with the id the k-th upload was answered.
GetParallelStatus(k) ==
    /\ k <= submitted
    /\ snapshot' = StatusById(FileUuid(k))
    /\ UNCHANGED <<fuseVars, batchVars, moreVars, max_workers, initialized, pool_shutdown,
                   cleaning, next_task, task, active_tasks, audio, pc, fut, pool_queue,
                   gather, returned, stats, call_error>>

NextAsync ==
    \/ Initialize
    \/ TranscribeParallelAsync
    \/ \E t \in TaskIds : BackgroundCall(t)
    \/ WorkerStart
    \/ \E t \in TaskIds, k \in Kinds : JobFinish(t, k)
    \/ \E t \in TaskIds : Resume(t)
    \/ \E k \in TaskIds : GetParallelStatus(k)

SpecAsync == InitTask /\ [][NextAsync]_vars

\* ------------------------------------------------ batch_transcribe_parallel
\* The /batch route of parallel_routes.py, handed MaxTasks files: it awaits
\* process_audio_parallel for one file after the other, and an exception of
\* a call leaves the loop (HTTP 500).

\* The route calls process_audio_parallel for its t-th file: the calls for
\* the files before it have all returned a result.
RouteCall(t) ==
    /\ \A u \in 1 .. t - 1 : pc[u] = "returned"
    /\ Call(t)

NextRoute ==
    \/ Initialize
    \/ \E t \in TaskIds : RouteCall(t)
    \/ WorkerStart
    \/ \E t \in TaskIds, k \in Kinds : JobFinish(t, k)
    \/ \E t \in TaskIds : Resume(t)

SpecRoute == InitTask /\ [][NextRoute]_vars

\* The service is initialized at startup, the thread pool runs its jobs, and
\* the event loop resumes the route and the call it awaits.
RouteFairness ==
    /\ WF_vars(Initialize)
    /\ \A t \in TaskIds : WF_vars(RouteCall(t))
    /\ WF_vars(WorkerStart)
    /\ \A t \in TaskIds, k \in Kinds : WF_vars(JobFinish(t, k))
    /\ \A t \in TaskIds : WF_vars(Resume(t))

SpecRouteLive == SpecRoute /\ RouteFairness

\* ---------------------------------------------------------- BatchProcessor
\* The coroutines of BatchProcessor and of DiarizationService.process_audio
\* run on one event loop: a callback runs from the head of the ready queue
\* to its next await that suspends, and what it schedules goes to the tail.
\* Nothing in DiarizationService.process_audio suspends before its
\* asyncio.gather: the recognizer and the diarizer are called synchronously
\* inside the two tasks it creates.

Cb(kind, b, f) == <<kind, b, f>>

InitBatch ==
    /\ FuseIdle
    /\ TaskIdle
    /\ \E w \in 1 .. MaxBatchWorkers : BatchConstructed(w)
    /\ MoreIdle

\* process_batch(request) with n files: the job is registered and
\* _process_batch_async is scheduled as a task.
RegisterBatch(n) ==
    /\ LET b == next_batch
       IN /\ job' = [job EXCEPT ![b] =
                        [NoJob EXCEPT !.status = "processing", !.total_files = n]]
          /\ active_jobs' = active_jobs \cup {b}
          /\ ready' = Append(ready, Cb("batch", b, 0))
    /\ next_batch' = next_batch + 1
    /\ UNCHANGED <<fuseVars, moreVars, taskVars, bp_max_workers, completed_jobs, failed_jobs,
                   sem, file, bdone>>

ProcessBatch(n) ==
    /\ next_batch <= MaxBatches
    /\ RegisterBatch(n)

\* process_batch(request), which may be called while earlier batches are
\* still being processed.
ProcessBatchConcurrently(n) ==
    /\ next_batch <= MaxCoBatches
    /\ RegisterBatch(n)

\* A cancel_batch that looks the batch up in all three registries.
CancelBatchAnywhere(b) ==
    /\ IF b \in active_jobs \cup completed_jobs \cup failed_jobs
       THEN /\ job' = [job EXCEPT ![b].status = "cancelled"]
            /\ failed_jobs' = failed_jobs \cup {b}
            /\ active_jobs' = active_jobs \ {b}
            /\ answer' = [query |-> "cancel_batch",
                          value |-> [batch_id |-> b, returned |-> b \in active_jobs]]
       ELSE /\ answer' = [query |-> "cancel_batch",
                          value |-> [batch_id |-> b, returned |-> FALSE]]
            /\ UNCHANGED <<job, failed_jobs, active_jobs>>
    /\ UNCHANGED <<fuseVars, progressVars, formatVars, submitted, taskVars,
                   bp_max_workers, next_batch, completed_jobs, sem, file, bdone, ready, cleanupVars>>

\* cancel_batch(batch_id); what it returns is kept in answer.
CancelBatch(b) ==
    /\ IF b \in active_jobs
       THEN /\ job' = [job EXCEPT ![b].status = "cancelled"]
            /\ failed_jobs' = failed_jobs \cup {b}
            /\ active_jobs' = active_jobs \ {b}
            /\ answer' = [query |-> "cancel_batch",
                          value |-> [batch_id |-> b, returned |-> TRUE]]
       ELSE /\ answer' = [query |-> "cancel_batch",
                          value |-> [batch_id |-> b, returned |-> FALSE]]
            /\ UNCHANGED <<job, failed_jobs, active_jobs>>
    /\ UNCHANGED <<fuseVars, progressVars, formatVars, submitted, taskVars,
                   bp_max_workers, next_batch, completed_jobs, sem, file, bdone, ready, cleanupVars>>

\* asyncio.Semaphore.locked().
LockedOffByOne(b) == sem[b].value + 1 = 0 \/ sem[b].waiters # << >>
Locked(b) == sem[b].value = 0 \/ sem[b].waiters # << >>

\* The first waiter of a semaphore whose future is not done yet, 0 if none.
LastWaiting(waiters, files) ==
    LET idx == {i \in 1 .. Len(waiters) : files[waiters[i]].pc = "waiting"}
    IN IF idx = {} THEN 0
       ELSE waiters[CHOOSE i \in idx : \A j \in idx : i >= j]
FirstWaiting(waiters, files) ==
    LET idx == {i \in 1 .. Len(waiters) : files[waiters[i]].pc = "waiting"}
    IN IF idx = {} THEN 0
       ELSE waiters[CHOOSE i \in idx : \A j \in idx : i <= j]

RemoveWaiter(waiters, f) == SelectSeq(waiters, LAMBDA g : g # f)

\* _finalize_batch, and what _process_batch_async does when it raises.
FinalizedJobIgnoresFailures(b) ==
    IF job[b].total_files = 0
    THEN [job[b] EXCEPT !.status = "failed"]
    ELSE [job[b] EXCEPT !.status = "completed", !.summary = TRUE]
FinalizedJob(b) ==
    IF job[b].total_files = 0
    THEN [job[b] EXCEPT !.status = "failed"]
    ELSE [job[b] EXCEPT !.status = IF job[b].failed_files = 0 THEN "completed"
                                   ELSE "completed_with_errors",
                        !.summary = TRUE]

FinalizeBatch(b) ==
    IF b \notin active_jobs
    THEN UNCHANGED <<job, active_jobs, completed_jobs>>
    ELSE /\ job' = [job EXCEPT ![b] = FinalizedJob(b)]
         /\ IF job[b].total_files = 0
            THEN UNCHANGED <<active_jobs, completed_jobs>>
            ELSE /\ completed_jobs' = completed_jobs \cup {b}
                 /\ active_jobs' = active_jobs \ {b}

\* _process_batch_async from its start to the await of asyncio.gather: the
\* semaphore and one task per file are created; without files asyncio.gather
\* is done at once and the batch is finalized.
BatchStart(b) ==
    /\ ready # << >> /\ Head(ready) = Cb("batch", b, 0)
    /\ sem' = [sem EXCEPT ![b] = [value |-> bp_max_workers, waiters |-> << >>]]
    /\ file' = [file EXCEPT ![b] =
                  [f \in FileIds |-> IF f <= job[b].total_files
                                     THEN [NoFile EXCEPT !.pc = "created"]
                                     ELSE NoFile]]
    /\ ready' = Tail(ready) \o [f \in 1 .. job[b].total_files |-> Cb("file", b, f)]
    /\ IF job[b].total_files = 0
       THEN FinalizeBatch(b)
       ELSE UNCHANGED <<job, active_jobs, completed_jobs>>
    /\ UNCHANGED <<fuseVars, moreVars, taskVars, bp_max_workers, next_batch, failed_jobs, bdone>>

\* The end of _process_single_file: leaving "async with semaphore" releases
\* the semaphore, which hands the slot to the first waiter, and the task
\* ends, which asyncio.gather of the batch is told.
FinishFile(b, f, frec, semb, jobb, rest) ==
    LET files == [file[b] EXCEPT ![f] = frec]
        w == FirstWaiting(semb.waiters, files)
    IN /\ file' = [file EXCEPT ![b] =
                     IF w = 0 THEN files ELSE [files EXCEPT ![w].pc = "woken"]]
       /\ sem' = [sem EXCEPT ![b] =
                    IF w = 0 THEN [semb EXCEPT !.value = @ + 1] ELSE semb]
       /\ job' = [job EXCEPT ![b] = jobb]
       /\ ready' = rest \o (IF w = 0 THEN << >> ELSE << Cb("wake", b, w) >>)
                        \o << Cb("done", b, f) >>

\* The except branch of _process_single_file (lines 144-159): without the
\* batch in active_jobs it raises KeyError itself.
FailedJobUncounted(b, f) ==
    [job[b] EXCEPT !.results[f] = [status |-> "failed", result |-> NoneV]]
FailedJob(b, f) ==
    [job[b] EXCEPT !.results[f] = [status |-> "failed", result |-> NoneV],
                   !.failed_files = @ + 1]

FailFile(b, f, frec, semb, rest) ==
    IF b \in active_jobs
    THEN FinishFile(b, f, [frec EXCEPT !.pc = "done"], semb, FailedJob(b, f), rest)
    ELSE FinishFile(b, f, [frec EXCEPT !.pc = "raised"], semb, job[b], rest)

\* A body of "async with semaphore" that records the file without looking
\* the batch up in active_jobs.
EnterBodyUnchecked(b, f, semb, rest) ==
    \/ FailFile(b, f, file[b][f], semb, rest)
    \/ /\ file' = [file EXCEPT ![b][f] =
                     [@ EXCEPT !.pc = "processing", !.gather = "pending"]]
       /\ sem' = [sem EXCEPT ![b] = semb]
       /\ job' = [job EXCEPT ![b].results[f] =
                    [status |-> "processing", result |-> NoneV]]
       /\ ready' = rest \o << Cb("whisper", b, f), Cb("diarization", b, f) >>

\* The body of "async with semaphore" up to the await of asyncio.gather in
\* DiarizationService.process_audio: the file is recorded as processing,
\* the audio is preprocessed, and the Whisper task and the diarization task
\* are created.
EnterBody(b, f, semb, rest) ==
    IF b \notin active_jobs
    THEN FinishFile(b, f, [file[b][f] EXCEPT !.pc = "raised"], semb, job[b], rest)
    ELSE \/ FailFile(b, f, file[b][f], semb, rest)
         \/ /\ file' = [file EXCEPT ![b][f] =
                          [@ EXCEPT !.pc = "processing", !.gather = "pending"]]
            /\ sem' = [sem EXCEPT ![b] = semb]
            /\ job' = [job EXCEPT ![b].results[f] =
                         [status |-> "processing", result |-> NoneV]]
            /\ ready' = rest \o << Cb("whisper", b, f), Cb("diarization", b, f) >>

\* _process_single_file from its start: Semaphore.acquire() takes a slot, or
\* queues the task as a waiter.
FileStart(b, f) ==
    /\ ready # << >> /\ Head(ready) = Cb("file", b, f)
    /\ IF ~Locked(b)
       THEN EnterBody(b, f, [sem[b] EXCEPT !.value = @ - 1], Tail(ready))
       ELSE /\ file' = [file EXCEPT ![b][f].pc = "waiting"]
            /\ sem' = [sem EXCEPT ![b].waiters = Append(@, f)]
            /\ ready' = Tail(ready)
            /\ UNCHANGED job
    /\ UNCHANGED <<fuseVars, moreVars, taskVars, bp_max_workers, next_batch, active_jobs,
                   completed_jobs, failed_jobs, bdone>>

\* A waiter that was handed a slot resumes in Semaphore.acquire().
FileWake(b, f) ==
    /\ ready # << >> /\ Head(ready) = Cb("wake", b, f)
    /\ EnterBody(b, f, [sem[b] EXCEPT !.waiters = RemoveWaiter(@, f)], Tail(ready))
    /\ UNCHANGED <<fuseVars, moreVars, taskVars, bp_max_workers, next_batch, active_jobs,
                   completed_jobs, failed_jobs, bdone>>

\* The Whisper task of process_audio: WhisperProcessor.transcribe returns or
\* raises.
WhisperTask(b, f) ==
    /\ ready # << >> /\ Head(ready) = Cb("whisper", b, f)
    /\ \E o \in {"ok", "raised"} :
          file' = [file EXCEPT ![b][f].whisper = o]
    /\ ready' = Append(Tail(ready), Cb("whisper_done", b, f))
    /\ UNCHANGED <<fuseVars, moreVars, taskVars, bp_max_workers, next_batch, job, active_jobs,
                   completed_jobs, failed_jobs, sem, bdone>>

\* What the diarization task of process_audio ends with when the NeMo
\* pipeline ends with o: _run_diarization logs an exception and returns [].
DiarizationTaskEnds(o) == IF o = "raised" THEN "caught" ELSE o

\* The diarization task of process_audio: _run_diarization.
DiarizationTask(b, f) ==
    /\ ready # << >> /\ Head(ready) = Cb("diarization", b, f)
    /\ \E o \in {"ok", "raised"} :
          file' = [file EXCEPT ![b][f].diarization = DiarizationTaskEnds(o)]
    /\ ready' = Append(Tail(ready), Cb("diarization_done", b, f))
    /\ UNCHANGED <<fuseVars, moreVars, taskVars, bp_max_workers, next_batch, job, active_jobs,
                   completed_jobs, failed_jobs, sem, bdone>>

\* The callback of asyncio.gather in process_audio for one of its two tasks.
GatherCallback(b, f, k) ==
    /\ ready # << >> /\ Head(ready) = Cb(k \o "_done", b, f)
    /\ IF file[b][f].gather # "pending"
       THEN /\ ready' = Tail(ready)
            /\ UNCHANGED file
       ELSE IF file[b][f][k] = "raised"
       THEN /\ file' = [file EXCEPT ![b][f].gather = ErrorOf(k)]
            /\ ready' = Append(Tail(ready), Cb("resume", b, f))
       ELSE /\ file' = [file EXCEPT ![b][f] =
                          [@ EXCEPT !.nfinished = @ + 1,
                                    !.gather = IF file[b][f].nfinished = 1
                                               THEN "ok" ELSE "pending"]]
            /\ ready' = IF file[b][f].nfinished = 1
                        THEN Append(Tail(ready), Cb("resume", b, f))
                        ELSE Tail(ready)
    /\ UNCHANGED <<fuseVars, moreVars, taskVars, bp_max_workers, next_batch, job, active_jobs,
                   completed_jobs, failed_jobs, sem, bdone>>

\* The segments of the result of process_audio: without turns (the diarizer
\* raised or found none) every segment is mapped to "Unknown".
ProcessAudioResult(b, f) ==
    EnhancedSpeakerMapping(MockSegments,
                           IF file[b][f].diarization = "ok" THEN MockSpeakers ELSE << >>)

\* process_audio from the end of its asyncio.gather, and the rest of
\* _process_single_file (lines 115-159): the result is saved and recorded,
\* or the failure is.
FileResume(b, f) ==
    /\ ready # << >> /\ Head(ready) = Cb("resume", b, f)
    /\ IF file[b][f].gather # "ok"
       THEN FailFile(b, f, file[b][f], sem[b], Tail(ready))
       ELSE \/ FailFile(b, f, file[b][f], sem[b], Tail(ready))
            \/ IF b \in active_jobs
               THEN FinishFile(b, f, [file[b][f] EXCEPT !.pc = "done"], sem[b],
                               [job[b] EXCEPT
                                  !.results[f] = [status |-> "completed",
                                                  result |-> Some(ProcessAudioResult(b, f))],
                                  !.completed_files = @ + 1],
                               Tail(ready))
               ELSE FinishFile(b, f, [file[b][f] EXCEPT !.pc = "raised"], sem[b],
                               job[b], Tail(ready))
    /\ UNCHANGED <<fuseVars, moreVars, taskVars, bp_max_workers, next_batch, active_jobs,
                   completed_jobs, failed_jobs, bdone>>

\* The callback of asyncio.gather in _process_batch_async for a file task
\* that ended; after the last one _process_batch_async is resumed.
FileDone(b, f) ==
    /\ ready # << >> /\ Head(ready) = Cb("done", b, f)
    /\ bdone' = [bdone EXCEPT ![b] = @ + 1]
    /\ ready' = IF bdone[b] + 1 = job[b].total_files
                THEN Append(Tail(ready), Cb("finalize", b, 0))
                ELSE Tail(ready)
    /\ UNCHANGED <<fuseVars, moreVars, taskVars, bp_max_workers, next_batch, job, active_jobs,
                   completed_jobs, failed_jobs, sem, file>>

\* _process_batch_async from the end of asyncio.gather: _finalize_batch.
BatchResume(b) ==
    /\ ready # << >> /\ Head(ready) = Cb("finalize", b, 0)
    /\ FinalizeBatch(b)
    /\ ready' = Tail(ready)
    /\ UNCHANGED <<fuseVars, moreVars, taskVars, bp_max_workers, next_batch, failed_jobs,
                   sem, file, bdone>>

NextBatch ==
    \/ \E n \in 0 .. MaxFiles : ProcessBatch(n)
    \/ \E b \in BatchIds : CancelBatch(b)
    \/ \E b \in BatchIds : BatchStart(b)
    \/ \E b \in BatchIds, f \in FileIds : FileStart(b, f)
    \/ \E b \in BatchIds, f \in FileIds : FileWake(b, f)
    \/ \E b \in BatchIds, f \in FileIds : WhisperTask(b, f)
    \/ \E b \in BatchIds, f \in FileIds : DiarizationTask(b, f)
    \/ \E b \in BatchIds, f \in FileIds, k \in Kinds : GatherCallback(b, f, k)
    \/ \E b \in BatchIds, f \in FileIds : FileResume(b, f)
    \/ \E b \in BatchIds, f \in FileIds : FileDone(b, f)
    \/ \E b \in BatchIds : BatchResume(b)

SpecBatch == InitBatch /\ [][NextBatch]_vars

\* The event loop runs every callback of its ready queue; nobody has to
\* submit or cancel a batch.
BatchFairness ==
    /\ \A b \in BatchIds : WF_vars(BatchStart(b))
    /\ \A b \in BatchIds, f \in FileIds :
          /\ WF_vars(FileStart(b, f))
          /\ WF_vars(FileWake(b, f))
          /\ WF_vars(WhisperTask(b, f))
          /\ WF_vars(DiarizationTask(b, f))
          /\ WF_vars(FileResume(b, f))
          /\ WF_vars(FileDone(b, f))
          /\ \A k \in Kinds : WF_vars(GatherCallback(b, f, k))
    /\ \A b \in BatchIds : WF_vars(BatchResume(b))

SpecBatchLive == SpecBatch /\ BatchFairness

\* One BatchProcessor handed several small batches, none of them cancelled.
NextCoordinator ==
    \/ \E n \in 0 .. MaxCoFiles : ProcessBatchConcurrently(n)
    \/ \E b \in BatchIds : BatchStart(b)
    \/ \E b \in BatchIds, f \in FileIds : FileStart(b, f)
    \/ \E b \in BatchIds, f \in FileIds : FileWake(b, f)
    \/ \E b \in BatchIds, f \in FileIds : WhisperTask(b, f)
    \/ \E b \in BatchIds, f \in FileIds : DiarizationTask(b, f)
    \/ \E b \in BatchIds, f \in FileIds, k \in Kinds : GatherCallback(b, f, k)
    \/ \E b \in BatchIds, f \in FileIds : FileResume(b, f)
    \/ \E b \in BatchIds, f \in FileIds : FileDone(b, f)
    \/ \E b \in BatchIds : BatchResume(b)

SpecCoordinator == InitBatch /\ [][NextCoordinator]_vars

\* -------------------------------------------------------- cleanup_old_jobs
\* Times are whole hours. stamps[b].started_at is the "started_at" of the
\* job; stamps[b].ended_at is summary["completed_at"] of a finalized batch
\* and "cancelled_at" of a cancelled one. No job has a key "completed_at".

\* A batch as process_batch, _finalize_batch and cancel_batch leave it.
JobWithStatus(st) ==
    CASE st = "none" -> NoJob
      [] st = "processing" -> [NoJob EXCEPT !.status = st, !.total_files = 1]
      [] st = "failed" -> [NoJob EXCEPT !.status = st]
      [] st = "completed" ->
            [NoJob EXCEPT !.status = st, !.total_files = 1, !.completed_files = 1,
                          !.summary = TRUE]
      [] st = "completed_with_errors" ->
            [NoJob EXCEPT !.status = st, !.total_files = 1, !.failed_files = 1,
                          !.summary = TRUE]
      [] st = "cancelled" -> [NoJob EXCEPT !.status = st, !.total_files = 1]

InitCleanup ==
    /\ FuseIdle /\ TaskIdle /\ ProgressIdle /\ FormatIdle /\ QueryIdle
    /\ bp_max_workers = 1
    /\ sem = [b \in BatchIds |-> NoSem]
    /\ file = [b \in BatchIds |-> [f \in FileIds |-> NoFile]]
    /\ bdone = [b \in BatchIds |-> 0]
    /\ ready = << >>
    /\ \E st \in [BatchIds -> {"none", "processing", "failed", "completed",
                              "completed_with_errors", "cancelled"}] :
          /\ \A b \in BatchIds : st[b] = "none" => \A c \in BatchIds : c > b => st[c] = "none"
          /\ job = [b \in BatchIds |-> JobWithStatus(st[b])]
          /\ next_batch = 1 + Cardinality({b \in BatchIds : st[b] # "none"})
          /\ active_jobs = {b \in BatchIds : st[b] \in {"processing", "failed"}}
          /\ completed_jobs =
                {b \in BatchIds : st[b] \in {"completed", "completed_with_errors"}}
          /\ failed_jobs = {b \in BatchIds : st[b] = "cancelled"}
          /\ stamps \in [BatchIds -> [started_at : 0 .. MaxHour, ended_at : 0 .. MaxHour]]
          /\ \A b \in BatchIds :
                IF st[b] \in {"completed", "completed_with_errors", "cancelled"}
                THEN stamps[b].started_at <= stamps[b].ended_at
                ELSE IF st[b] = "none" THEN stamps[b] = NoStamps
                ELSE stamps[b].ended_at = 0
    /\ utcnow = MaxHour
    /\ cleanup_error = None

\* cleanup_old_jobs(max_age_hours): job_info["completed_at"] of the first
\* completed job raises KeyError before anything is deleted; the age of a
\* failed job is taken from "started_at".
CleanupOldJobs(max_age_hours) ==
    LET cutoff_time == utcnow - max_age_hours
    IN /\ IF completed_jobs # {}
          THEN /\ cleanup_error' = "KeyError"
               /\ UNCHANGED failed_jobs
          ELSE /\ cleanup_error' = None
               /\ failed_jobs' =
                     {b \in failed_jobs : ~(stamps[b].started_at < cutoff_time)}
       /\ UNCHANGED <<fuseVars, taskVars, progressVars, formatVars, queryVars,
                      bp_max_workers, next_batch, job, active_jobs, completed_jobs,
                      sem, file, bdone, ready, utcnow, stamps>>

NextCleanup == \E h \in 0 .. MaxAgeHours : CleanupOldJobs(h)

SpecCleanup == InitCleanup /\ [][NextCleanup]_vars

\* ------------------------------------------------------------ the queries
\* The read operations of the two services. One service is used at a time.

\* ParallelDiarizationService.get_active_tasks: id and status of each task
\* in active_tasks.
GetActiveTasks ==
    /\ ~cleaning
    /\ answer' = [query |-> "get_active_tasks",
                  value |-> {<<t, task[t].status>> : t \in active_tasks}]
    /\ UNCHANGED <<fuseVars, taskVars, batchVars, progressVars, formatVars, submitted, cleanupVars>>

\* ParallelDiarizationService.get_processing_stats: a copy of the counters.
GetProcessingStats ==
    /\ ~cleaning
    /\ answer' = [query |-> "get_processing_stats", value |-> stats]
    /\ UNCHANGED <<fuseVars, taskVars, batchVars, progressVars, formatVars, submitted, cleanupVars>>

\* The batches BatchProcessor has in one of its three registries.
Registered == active_jobs \cup completed_jobs \cup failed_jobs

\* A get_batch_status that takes a finished job out of its registry.
GetBatchStatusPops(b) ==
    /\ answer' = [query |-> "get_batch_status",
                  value |-> IF b \in Registered THEN Some(job[b]) ELSE NoneV]
    /\ completed_jobs' = completed_jobs \ {b}
    /\ UNCHANGED <<fuseVars, taskVars, bp_max_workers, next_batch, job, active_jobs,
                   failed_jobs, sem, file, bdone, ready, progressVars, formatVars,
                   submitted, cleanupVars>>

\* BatchProcessor.get_batch_status(batch_id).
GetBatchStatus(b) ==
    /\ answer' = [query |-> "get_batch_status",
                  value |-> IF b \in Registered THEN Some(job[b]) ELSE NoneV]
    /\ UNCHANGED <<fuseVars, taskVars, batchVars, progressVars, formatVars, submitted, cleanupVars>>

\* BatchProcessor.get_all_batches.
GetAllBatches ==
    /\ answer' = [query |-> "get_all_batches",
                  value |-> {<<b, job[b]>> : b \in Registered}]
    /\ UNCHANGED <<fuseVars, taskVars, batchVars, progressVars, formatVars, submitted, cleanupVars>>

\* BatchProcessor.get_statistics; success_rate is kept as the pair of its
\* numerator and denominator.
GetStatistics ==
    /\ LET total_completed == Cardinality(completed_jobs)
           total_processed == Cardinality(completed_jobs) + Cardinality(failed_jobs)
       IN answer' = [query |-> "get_statistics",
                     value |-> [active_jobs |-> Cardinality(active_jobs),
                                completed_jobs |-> total_completed,
                                failed_jobs |-> Cardinality(failed_jobs),
                                total_processed |-> total_processed,
                                success_rate |-> IF total_processed > 0
                                                 THEN <<total_completed, total_processed>>
                                                 ELSE <<0, 1>>,
                                max_concurrent_jobs |-> bp_max_workers]]
    /\ UNCHANGED <<fuseVars, taskVars, batchVars, progressVars, formatVars, submitted, cleanupVars>>

\* Nothing has been asked of the ParallelDiarizationService.
TaskUntouched ==
    /\ ~initialized /\ ~pool_shutdown /\ ~cleaning
    /\ next_task = 1 /\ call_error = None /\ snapshot = NotFound

\* Nothing has been asked of the BatchProcessor.
BatchUntouched == next_batch = 1

\* Either service under its callers and its queries.
NextQueries ==
    \/ BatchUntouched /\ Initialize
    \/ BatchUntouched /\ CallRejected
    \/ \E t \in TaskIds : BatchUntouched /\ Call(t)
    \/ BatchUntouched /\ WorkerStart
    \/ \E t \in TaskIds, k \in Kinds : BatchUntouched /\ JobFinish(t, k)
    \/ \E t \in TaskIds : BatchUntouched /\ Resume(t)
    \/ BatchUntouched /\ CleanupBegin
    \/ BatchUntouched /\ CleanupEnd
    \/ \E t \in TaskIds : BatchUntouched /\ GetTaskStatus(t)
    \/ BatchUntouched /\ GetActiveTasks
    \/ BatchUntouched /\ GetProcessingStats
    \/ \E n \in 0 .. MaxFiles : TaskUntouched /\ ProcessBatch(n)
    \/ \E b \in BatchIds : TaskUntouched /\ CancelBatch(b)
    \/ \E b \in BatchIds : TaskUntouched /\ BatchStart(b)
    \/ \E b \in BatchIds, f \in FileIds : TaskUntouched /\ FileStart(b, f)
    \/ \E b \in BatchIds, f \in FileIds : TaskUntouched /\ FileWake(b, f)
    \/ \E b \in BatchIds, f \in FileIds : TaskUntouched /\ WhisperTask(b, f)
    \/ \E b \in BatchIds, f \in FileIds : TaskUntouched /\ DiarizationTask(b, f)
    \/ \E b \in BatchIds, f \in FileIds, k \in Kinds :
          TaskUntouched /\ GatherCallback(b, f, k)
    \/ \E b \in BatchIds, f \in FileIds : TaskUntouched /\ FileResume(b, f)
    \/ \E b \in BatchIds, f \in FileIds : TaskUntouched /\ FileDone(b, f)
    \/ \E b \in BatchIds : TaskUntouched /\ BatchResume(b)
    \/ \E b \in BatchIds : TaskUntouched /\ GetBatchStatus(b)
    \/ TaskUntouched /\ GetAllBatches
    \/ TaskUntouched /\ GetStatistics

SpecQueries == (InitTask \/ InitBatch) /\ [][NextQueries]_vars

\* ------------------------------------------------- OutputFormatConverter
\* A text is the sequence of its characters; a time is a whole number of
\* milliseconds t, handed to the converter as the float t / 1000.

\* The times a segment starts or ends at.
SampleTimes == {0, 1001, 65500, 70250, 3599999, 359999999}
\* The times t of SampleTimes for which (t / 1000.0 % 1) * 1000 is, in IEEE
\* double arithmetic, just below the whole number t % 1000.
RoundsBelow == {1001, 3599999}

Texts == {<<"h", "i">>, <<" ", "a", ",", " ", "b", " ">>}
Speakers == {<<"S", "1">>}
\* A segment dict: "speaker" is a key of it or not.
Cue ==
    {c \in [start : SampleTimes, end : SampleTimes, text : Texts,
            has_speaker : BOOLEAN, speaker : Speakers \cup {<< >>}] :
        /\ c.start <= c.end
        /\ c.has_speaker <=> c.speaker # << >>}

Digit(d) == <<"0", "1", "2", "3", "4", "5", "6", "7", "8", "9">>[d + 1]

\* str(n) of a natural number.
RECURSIVE Decimal(_)
Decimal(n) == IF n < 10 THEN <<Digit(n)>> ELSE Decimal(n \div 10) \o <<Digit(n % 10)>>

\* f"{n:0wd}".
RECURSIVE ZeroFill(_, _)
ZeroFill(d, w) == IF Len(d) >= w THEN d ELSE ZeroFill(<<"0">> \o d, w)
Pad(n, w) == ZeroFill(Decimal(n), w)

\* f"{x:.3f}" of x = ms / 1000.
Fixed3(ms) == Decimal(ms \div 1000) \o <<".">> \o Pad(ms % 1000, 3)

Whitespace == {" "}
\* str.strip().
RECURSIVE LStrip(_)
LStrip(txt) ==
    IF txt # << >> /\ Head(txt) \in Whitespace THEN LStrip(Tail(txt)) ELSE txt
RECURSIVE RStrip(_)
RStrip(txt) ==
    IF txt # << >> /\ txt[Len(txt)] \in Whitespace
    THEN RStrip(SubSeq(txt, 1, Len(txt) - 1))
    ELSE txt
Strip(txt) == RStrip(LStrip(txt))

\* "\n".join(lines).
RECURSIVE Join(_)
Join(lines) ==
    IF lines = << >> THEN << >>
    ELSE IF Len(lines) = 1 THEN lines[1]
    ELSE lines[1] \o <<"\n">> \o Join(Tail(lines))

\* int((seconds % 1) * 1000).
Millisecs(t) == IF t \in RoundsBelow THEN (t % 1000) - 1 ELSE t % 1000

\* A _format_timestamp_vtt that separates the milliseconds with a comma.
FormatTimestampVttComma(t) ==
    Pad(t \div 3600000, 2) \o <<":">> \o Pad((t % 3600000) \div 60000, 2) \o <<":">>
        \o Pad((t % 60000) \div 1000, 2) \o <<",">> \o Pad(Millisecs(t), 3)

\* _format_timestamp_srt(seconds).
FormatTimestampSrt(t) ==
    Pad(t \div 3600000, 2) \o <<":">> \o Pad((t % 3600000) \div 60000, 2) \o <<":">>
        \o Pad((t % 60000) \div 1000, 2) \o <<",">> \o Pad(Millisecs(t), 3)

\* _format_timestamp_vtt(seconds).
FormatTimestampVtt(t) ==
    Pad(t \div 3600000, 2) \o <<":">> \o Pad((t % 3600000) \div 60000, 2) \o <<":">>
        \o Pad((t % 60000) \div 1000, 2) \o <<".">> \o Pad(Millisecs(t), 3)

Arrow == <<" ", "-", "-", ">", " ">>

\* The text line of a cue.
CueText(segment, inc) ==
    IF inc /\ segment.has_speaker
    THEN <<"[">> \o segment.speaker \o <<"]", " ">> \o Strip(segment.text)
    ELSE Strip(segment.text)

\* srt_content of to_srt after the segments from the i-th on.
RECURSIVE SrtContent(_, _, _)
SrtContent(segs, i, inc) ==
    IF i > Len(segs) THEN << >>
    ELSE << Decimal(i),
            FormatTimestampSrt(segs[i].start) \o Arrow \o FormatTimestampSrt(segs[i].end),
            CueText(segs[i], inc),
            << >> >> \o SrtContent(segs, i + 1, inc)

\* to_srt(result, include_speakers).
ToSrt(segs, inc) == Join(SrtContent(segs, 1, inc))

\* What to_vtt appends to vtt_content for the segments from the i-th on.
RECURSIVE VttContent(_, _, _)
VttContent(segs, i, inc) ==
    IF i > Len(segs) THEN << >>
    ELSE << FormatTimestampVtt(segs[i].start) \o Arrow \o FormatTimestampVtt(segs[i].end),
            CueText(segs[i], inc),
            << >> >> \o VttContent(segs, i + 1, inc)

\* to_vtt(result, include_speakers).
ToVtt(segs, inc) ==
    Join(<< <<"W", "E", "B", "V", "T", "T">>, << >> >> \o VttContent(segs, 1, inc))

RttmHead == <<"S", "P", "E", "A", "K", "E", "R", " ", "a", "u", "d", "i", "o", " ", "1", " ">>
NA == <<"<", "N", "A", ">">>

\* The rttm_line of a segment.
RttmLine(segment) ==
    RttmHead \o Fixed3(segment.start) \o <<" ">> \o Fixed3(segment.end - segment.start)
        \o <<" ">> \o NA \o <<" ">> \o NA \o <<" ">> \o segment.speaker \o <<" ">> \o NA

\* rttm_content of to_rttm after the segments from the i-th on.
RECURSIVE RttmContent(_, _)
RttmContent(segs, i) ==
    IF i > Len(segs) THEN << >>
    ELSE (IF segs[i].has_speaker THEN <<RttmLine(segs[i])>> ELSE << >>)
            \o RttmContent(segs, i + 1)

\* to_rttm(result).
ToRttm(segs) == Join(RttmContent(segs, 1))

InitFormat ==
    /\ FuseIdle /\ TaskIdle /\ BatchIdle /\ ProgressIdle /\ QueryIdle /\ CleanupIdle
    /\ result \in SeqsUpTo(Cue, MaxCues)
    /\ include_speakers \in BOOLEAN
    /\ format = "none"
    /\ rendered = << >>

CallToSrt ==
    /\ format = "none"
    /\ format' = "srt"
    /\ rendered' = ToSrt(result, include_speakers)
    /\ UNCHANGED <<fuseVars, taskVars, batchVars, progressVars, queryVars, result,
                   include_speakers, cleanupVars>>

CallToVtt ==
    /\ format = "none"
    /\ format' = "vtt"
    /\ rendered' = ToVtt(result, include_speakers)
    /\ UNCHANGED <<fuseVars, taskVars, batchVars, progressVars, queryVars, result,
                   include_speakers, cleanupVars>>

CallToRttm ==
    /\ format = "none"
    /\ format' = "rttm"
    /\ rendered' = ToRttm(result)
    /\ UNCHANGED <<fuseVars, taskVars, batchVars, progressVars, queryVars, result,
                   include_speakers, cleanupVars>>

NextFormat ==
    \/ CallToSrt
    \/ CallToVtt
    \/ CallToRttm

SpecFormat == InitFormat /\ [][NextFormat]_vars

\* ------------------------------------------ claims about the task lifecycle

\* C2: once a task's status is completed, failed or cancelled, no step of
\* process_audio_parallel, of a status query or of cleanup changes it.
C2_TerminalIsFinal ==
    [][\A t \in TaskIds :
          task[t].status \in Terminal => task'[t].status = task[t].status]_vars

\* C4: a task whose audio both analyzers succeed on (an empty sequence of
\* turns included) eventually is completed, with its end time set and the
\* fusion of the two results returned.
C4_BothSucceedCompletes ==
    \A t \in TaskIds :
        (pc[t] = "gather" /\ audio[t].whisper.ok /\ audio[t].diarization.ok)
        ~> (/\ task[t].status = "completed"
            /\ task[t].end_time
            /\ returned[t] = Some(CombineResults(audio[t].whisper.result,
                                                 audio[t].diarization.result)))

\* C4 witness: a task whose diarizer returned no turns is completed and its
\* call has returned the fused segments.
C4_Witness ==
    \E t \in TaskIds :
        /\ audio[t].whisper.ok
        /\ audio[t].diarization = [ok |-> TRUE, result |-> << >>]
        /\ task[t].status = "completed" /\ task[t].end_time
        /\ returned[t] # NoneV /\ Len(returned[t][1]) = Len(MockSegments)

\* C5: a task has a fused result exactly when its status is completed.
C5_FusedIffCompleted ==
    \A t \in TaskIds : (returned[t] # NoneV) <=> (task[t].status = "completed")

\* C5 witness: one task is completed with its fused result, another one has
\* failed without one although its recognizer call succeeded.
C5_Witness ==
    \E t, u \in TaskIds :
        /\ task[t].status = "completed" /\ returned[t] # NoneV
        /\ task[u].status = "failed" /\ returned[u] = NoneV
        /\ fut[u].whisper.state = "ok"

\* C6: both analyzer calls of a task are started before either is waited
\* for and are in flight together: the diarizer call is not still waiting to
\* start when the recognizer call has ended, whatever max_workers is and
\* however many tasks run.
C6_BothInFlight ==
    \A t \in TaskIds :
        /\ pc[t] = "gather" =>
              fut[t].whisper.state # "none" /\ fut[t].diarization.state # "none"
        /\ fut[t].whisper.state \in Finished => fut[t].diarization.state # "queued"

\* C7: a task leaves Running, to completed or to failed, only when both of
\* its analyzer calls have ended.
C7_JoinBeforeLeaving ==
    \A t \in TaskIds :
        task[t].status \in {"completed", "failed"} =>
            fut[t].whisper.state \in Finished /\ fut[t].diarization.state \in Finished

\* C18: once a running task has been cancelled, a status query for it
\* reports cancelled from then on, whether or not its analyzer calls end.
C18_CancelledStaysReported ==
    [][\A t \in TaskIds :
          (t \in active_tasks /\ task[t].status = "cancelled")
          => StatusReport(t)'.status = "cancelled"]_vars

\* C19: what the analyzers of a cancelled task return afterwards is
\* discarded: no result is stored on a task once it is cancelled.
C19_CancelledStoresNothing ==
    [][\A t \in TaskIds :
          task[t].status = "cancelled"
          => /\ task'[t].whisper_result = NoneV
             /\ task'[t].diarization_result = NoneV]_vars

\* C20: a status query for a task that has failed returns the task, with
\* status failed and the description of the failure as its error.
C20_FailureIsReported ==
    \A t \in TaskIds :
        task[t].status = "failed"
        => /\ StatusReport(t).found
           /\ StatusReport(t).status = "failed"
           /\ StatusReport(t).error \in {ErrorOf(k) : k \in Kinds}

\* C21: whatever a reader thread's get_task_status is interleaved with, a
\* snapshot it returns with status completed or failed has its end time
\* set, and one with status failed has its error set.
C21_SnapshotNotMidMutation ==
    /\ snapshot.status \in {"completed", "failed"} => snapshot.end_time
    /\ snapshot.status = "failed" => snapshot.error # None

\* C22: while a task is running, the progress reported for it is within
\* 0 .. 100 and a later report is not below an earlier one.
C22_ProgressMonotoneWhileRunning ==
    [][(ptask'.status = "processing" /\ progress' # NoneV)
       => /\ progress'[1] \in 0 .. 100
          /\ progress # NoneV => progress[1] <= progress'[1]]_vars

\* C22 witness: the running task was reported at the cap after more than
\* estimated_total seconds.
C22_Witness ==
    /\ ptask.status = "processing"
    /\ clock - ptask.start_time > EstimatedTotal
    /\ progress = Some(ProgressCap)

\* C23: the progress reported for a task is 100 when its status is
\* completed and 0 when it is failed or cancelled, whatever time has passed.
C23_ProgressOfTerminal ==
    /\ ptask.status = "completed" => CalculateProgress(ptask, clock) = 100
    /\ ptask.status \in {"failed", "cancelled"} => CalculateProgress(ptask, clock) = 0

\* C24: while the task scheduled by an asynchronous submission is being
\* processed, a status query with the id the submission returned finds it.
C24_ReturnedIdFindsTask ==
    \A t \in TaskIds :
        (t <= submitted /\ t \in active_tasks /\ task[t].status = "processing")
        => StatusById(FileUuid(t)).found

\* A step in which a query answered: the caller's view changed. cancel_batch
\* is not a query.
Answered ==
    \/ snapshot' # snapshot
    \/ /\ answer'.query # "cancel_batch"
       /\ \/ answer'.query # answer.query
          \/ answer'.value # answer.value

\* C25: the queries get_task_status, get_active_tasks, get_processing_stats,
\* get_batch_status, get_all_batches and get_statistics are read-only: a step
\* in which one of them answers leaves every task, batch, registry and
\* counter of both services as it was.
C25_QueriesAreReadOnly ==
    [][Answered =>
         UNCHANGED <<max_workers, initialized, pool_shutdown, cleaning, next_task,
                     task, active_tasks, audio, pc, fut, pool_queue, gather,
                     returned, stats, call_error, batchVars>>]_vars

\* A batch with a finished file was reported while it was still processing.
C25_Witness ==
    /\ answer.query = "get_batch_status"
    /\ answer.value # NoneV
    /\ answer.value[1].status = "processing"
    /\ answer.value[1].completed_files > 0
    /\ active_jobs # {}

\* ------------------------------------------------ claims about the fusion

\* The overlap of a segment and a turn as the design states it.
Overlap(segment, turn) ==
    Max(0, Min(segment.end, turn.end_time) - Max(segment.start, turn.start_time))

GreatestOverlap(segment, speaker_segments) ==
    IF speaker_segments = << >> THEN 0
    ELSE LET overlaps == {Overlap(segment, speaker_segments[i]) :
                            i \in 1 .. Len(speaker_segments)}
         IN CHOOSE m \in overlaps : \A o \in overlaps : o <= m

\* The first turn, in input order, whose overlap is the greatest one.
FirstGreatest(segment, speaker_segments) ==
    CHOOSE i \in 1 .. Len(speaker_segments) :
        /\ Overlap(segment, speaker_segments[i]) = GreatestOverlap(segment, speaker_segments)
        /\ \A j \in 1 .. i - 1 :
              Overlap(segment, speaker_segments[j]) < GreatestOverlap(segment, speaker_segments)

ZeroOverlap(segment, speaker_segments) ==
    \A i \in 1 .. Len(speaker_segments) : Overlap(segment, speaker_segments[i]) = 0

UnknownSentinels == {"Unknown", "unknown"}

\* C8: every fuser returns one fused segment per input segment, in input
\* order: the output is as long as the segment sequence and its i-th element
\* carries the start and end of the i-th input segment.
C8_OnePerSegmentInOrder ==
    impl # "none" =>
        /\ Len(out) = Len(segments)
        /\ \A i \in 1 .. Len(segments) :
              out[i].start = segments[i].start /\ out[i].end = segments[i].end

\* C8 witness: _combine_results has fused two different segments, one of
\* which no turn overlaps.
C8_Witness ==
    /\ impl = "parallel"
    /\ Len(segments) = 2 /\ segments[1] # segments[2]
    /\ Len(turns) = 1
    /\ Len(out) = 2 /\ out[1].speaker = "Unknown" /\ out[2].speaker # "Unknown"

\* C9: a matcher returns the speaker of the turn with the greatest overlap
\* max(0, min(ends) - max(starts)), the first such turn in input order when
\* several share it, and None when no turn overlaps the segment.
C9_GreatestOverlapFirstWins ==
    impl # "none" =>
        best = IF GreatestOverlap(segments[1], turns) > 0
               THEN turns[FirstGreatest(segments[1], turns)].speaker_id
               ELSE None

\* C9 witness: two turns of different speakers tie on a positive overlap and
\* the matcher of DiarizationService has returned the first one.
C9_Witness ==
    /\ impl = "service"
    /\ Len(turns) = 2
    /\ turns[1].speaker_id = "A" /\ turns[2].speaker_id = "B"
    /\ turns[1].start_time # turns[2].start_time
    /\ Overlap(segments[1], turns[1]) = Overlap(segments[1], turns[2])
    /\ Overlap(segments[1], turns[1]) > 0
    /\ best = "A"

\* C10: a segment that has zero overlap with every turn (no turns at all, or
\* turns that at most touch it) is given the unknown speaker sentinel by
\* every fuser.
C10_ZeroOverlapIsUnknown ==
    impl # "none" =>
        \A i \in 1 .. Len(segments) :
            ZeroOverlap(segments[i], turns) => out[i].speaker \in UnknownSentinels

\* C11: a fuser of the two services only annotates: the i-th fused segment
\* has the start and end of the i-th input segment, and its speaker is the
\* unknown sentinel or the speaker_id, as it is, of an input turn that
\* overlaps the segment.
C11_FusionOnlyAnnotates ==
    impl \in {"parallel", "service", "service_basic"} =>
        /\ Len(out) = Len(segments)
        /\ \A i \in 1 .. Len(segments) :
              /\ out[i].start = segments[i].start /\ out[i].end = segments[i].end
              /\ \/ out[i].speaker \in UnknownSentinels
                 \/ \E j \in 1 .. Len(turns) :
                       /\ Overlap(segments[i], turns[j]) > 0
                       /\ out[i].speaker = turns[j].speaker_id

\* What the fuser named i returns for segments s and turns t.
FuserOf(i, s, t) ==
    CASE i = "parallel" -> CombineResults(s, t)
      [] i = "service" -> EnhancedSpeakerMapping(s, t)
      [] i = "original" -> AlignSpeakers(s, t)
      [] i = "service_basic" -> ServiceAlignSpeakers(s, t)

\* C26: the matcher and the fuser are pure: a call leaves the segment
\* sequence and the turn sequence passed to it and the state of the services
\* as they were, and what it returns is determined by the two sequences.
C26_FuserIsPure ==
    [][impl' # impl =>
         /\ UNCHANGED <<segments, turns, best, taskVars, batchVars, moreVars>>
         /\ out' = FuserOf(impl', segments, turns)]_vars

\* The original aligner has labelled one of two segments from a turn.
C26_Witness ==
    /\ impl = "original"
    /\ Len(segments) = 2 /\ Len(turns) = 1
    /\ out[1].speaker = "A" /\ out[2].speaker = "unknown"

\* ------------------------------------------------- claims about the batch

\* The files of a batch that hold a slot of its semaphore: admitted and not
\* finished yet.
Admitted(b) == {f \in FileIds : file[b][f].pc \in {"woken", "processing"}}

\* C1: at every moment at most max_workers files of a batch are being
\* processed, whatever max_workers >= 1 and the number of files are.
C1_AtMostWorkersAdmitted ==
    \A b \in BatchIds : Cardinality(Admitted(b)) <= bp_max_workers

\* C1 witness: with max_workers = 2 two files of a batch are being processed
\* while a third one waits for the semaphore.
C1_Witness ==
    \E b \in BatchIds :
        /\ bp_max_workers = 2
        /\ Cardinality(Admitted(b)) = 2
        /\ \E f \in FileIds : file[b][f].pc = "waiting"

\* C3: when the recognizer call or the diarizer call made for an audio file
\* has failed, no fused result is produced for it and it is not completed.
C3_FailureGivesNoResult ==
    \A b \in BatchIds, f \in FileIds :
        (file[b][f].whisper = "raised" \/ file[b][f].diarization = "caught")
        => /\ job[b].results[f].status # "completed"
           /\ job[b].results[f].result = NoneV

\* The files of a batch whose recorded outcome is st.
Recorded(b, st) == {f \in FileIds : job[b].results[f].status = st}

\* Every file task of batch b has ended and _process_batch_async has gone on
\* from its asyncio.gather.
AllFilesFinished(b) ==
    /\ job[b].total_files >= 1
    /\ bdone[b] = job[b].total_files
    /\ \A i \in 1 .. Len(ready) : ready[i] # Cb("finalize", b, 0)

\* C12: once every file of a batch of N >= 1 files that was not cancelled
\* has finished, k of them failed, the batch is completed if k = 0 and
\* completed_with_errors otherwise, its completed count is N - k and its
\* failed count is k.
C12_FinalStatusAndCounts ==
    \A b \in BatchIds :
        (AllFilesFinished(b) /\ b \notin failed_jobs) =>
            LET k == Cardinality(Recorded(b, "failed"))
            IN /\ b \in completed_jobs
               /\ job[b].status = IF k = 0 THEN "completed" ELSE "completed_with_errors"
               /\ job[b].completed_files = job[b].total_files - k
               /\ job[b].failed_files = k

\* C12 witness: a batch of three files, the second of which failed, is
\* completed_with_errors with two completed files and one failed file.
C12_Witness ==
    \E b \in BatchIds :
        /\ AllFilesFinished(b)
        /\ job[b].total_files = 3
        /\ Recorded(b, "failed") = {2}
        /\ job[b].status = "completed_with_errors"
        /\ job[b].completed_files = 2 /\ job[b].failed_files = 1

\* C13: the failure of one file of a batch does not abort or block the other
\* files of the batch: each of them is still processed and ends with its
\* own outcome.
C13_FailureIsIsolated ==
    \A t \in TaskIds, u \in TaskIds :
        (t # u /\ task[t].status = "failed")
        ~> (task[u].status \in {"completed", "failed"})

\* The terminal statuses of a batch.
BatchTerminal == {"completed", "completed_with_errors", "cancelled", "failed"}

\* The file tasks of a batch that have ended.
FilesEnded(b) == {f \in FileIds : file[b][f].pc \in {"done", "raised"}}

\* C14: a batch whose status is terminal has no file that has not reached
\* its end: no file of it is still waiting or being processed.
C14_TerminalOnlyWhenFilesEnded ==
    \A b \in BatchIds :
        job[b].status \in BatchTerminal => FilesEnded(b) = 1 .. job[b].total_files

\* C15: once the status of a batch is terminal, its status, counts, per-file
\* results and summary never change again.
C15_TerminalBatchIsFrozen ==
    [][\A b \in BatchIds : job[b].status \in BatchTerminal => job'[b] = job[b]]_vars

\* C16: between any two callbacks of the event loop the counters of a batch
\* agree with its per-file results: completed_files is the number of files
\* recorded completed, failed_files the number recorded failed, and together
\* they do not exceed total_files.
C16_CountersMatchResults ==
    \A b \in BatchIds :
        /\ job[b].completed_files = Cardinality(Recorded(b, "completed"))
        /\ job[b].failed_files = Cardinality(Recorded(b, "failed"))
        /\ job[b].completed_files + job[b].failed_files <= job[b].total_files

\* C16 witness: while a third file of a batch is still being processed, one
\* file is recorded completed and one failed, and both counters are 1.
C16_Witness ==
    \E b \in BatchIds :
        /\ job[b].status = "processing"
        /\ Cardinality(Recorded(b, "completed")) = 1 /\ job[b].completed_files = 1
        /\ Cardinality(Recorded(b, "failed")) = 1 /\ job[b].failed_files = 1
        /\ \E f \in FileIds : file[b][f].pc = "processing"

\* The files of a batch that have been given a slot of its semaphore.
Started(b) == {f \in FileIds : file[b][f].pc \in {"woken", "processing", "done", "raised"}}

\* C17: the files of a batch are admitted in submission order: a file has
\* not started before every file submitted before it has.
C17_AdmittedInSubmissionOrder ==
    \A b \in BatchIds : \A i, j \in 1 .. job[b].total_files :
        (i < j /\ j \in Started(b)) => i \in Started(b)

\* C17 witness: with max_workers = 1 the first file has ended, the second
\* one has been given its slot, and the third one still waits.
C17_Witness ==
    \E b \in BatchIds :
        /\ bp_max_workers = 1
        /\ file[b][1].pc = "done"
        /\ file[b][2].pc \in {"woken", "processing"}
        /\ file[b][3].pc = "waiting"

\* C30: the worker limit bounds the coordinator as a whole: over all batches
\* one BatchProcessor is processing, at most max_workers files are being
\* processed at any moment.
C30_AtMostWorkersOverall ==
    Cardinality({bf \in BatchIds \X FileIds : bf[2] \in Admitted(bf[1])})
        <= bp_max_workers

\* ------------------------------------------- claims about the renderings

\* HH:MM:SS of t whole milliseconds, and its milliseconds.
Clock(t) ==
    Pad(t \div 3600000, 2) \o <<":">> \o Pad((t \div 60000) % 60, 2) \o <<":">>
        \o Pad((t \div 1000) % 60, 2)
Stamp(t, sep) == Clock(t) \o <<sep>> \o Pad(t % 1000, 3)

\* The four lines of the i-th cue of a subtitle file.
ExpectedCue(segs, i) ==
    << Decimal(i),
       Stamp(segs[i].start, ",") \o Arrow \o Stamp(segs[i].end, ","),
       <<"[">> \o segs[i].speaker \o <<"]", " ">> \o Strip(segs[i].text),
       << >> >>
RECURSIVE ExpectedCues(_, _)
ExpectedCues(segs, i) ==
    IF i > Len(segs) THEN << >> ELSE ExpectedCue(segs, i) \o ExpectedCues(segs, i + 1)

AllHaveSpeaker == \A i \in 1 .. Len(result) : result[i].has_speaker

\* C27: SRT rendering of labelled segments is, for the i-th segment from 1
\* and in input order, the line i, the line 'HH:MM:SS,mmm --> HH:MM:SS,mmm'
\* of the zero-padded hours, minutes, seconds and milliseconds of its start
\* and end, the line '[speaker] text' and a blank line.
C27_SrtCues ==
    (format = "srt" /\ include_speakers /\ AllHaveSpeaker) =>
        rendered = Join(ExpectedCues(result, 1))

\* s with every ',' replaced by '.'.
Dotted(s) == [k \in 1 .. Len(s) |-> IF s[k] = "," THEN "." ELSE s[k]]

\* The cues of the SRT lines L from the i-th on, each without its number
\* line and with dots in its time line.
RECURSIVE SrtCuesAsVtt(_, _)
SrtCuesAsVtt(L, i) ==
    IF 4 * i > Len(L) THEN << >>
    ELSE <<Dotted(L[4 * i - 2]), L[4 * i - 1], L[4 * i]>> \o SrtCuesAsVtt(L, i + 1)

\* C28: VTT rendering of a result is the line 'WEBVTT', a blank line, and
\* then for each segment in input order the cue SRT rendering gives it,
\* without the cue-number line and with ',' replaced by '.' in its timestamps.
C28_VttIsSrtWithDots ==
    format = "vtt" =>
        rendered = Join(<< <<"W", "E", "B", "V", "T", "T">>, << >> >>
                        \o SrtCuesAsVtt(SrtContent(result, 1, include_speakers), 1))

\* Two cues were rendered as VTT, one of a text with a comma in it.
C28_Witness ==
    /\ format = "vtt"
    /\ Len(result) = 2
    /\ result[1].start = 65500 /\ result[1].end = 70250
    /\ result[1].has_speaker /\ include_speakers
    /\ \E k \in 1 .. Len(result[2].text) : result[2].text[k] = ","

\* The number of lines of a text.
RECURSIVE NewLines(_)
NewLines(s) ==
    IF s = << >> THEN 0 ELSE (IF Head(s) = "\n" THEN 1 ELSE 0) + NewLines(Tail(s))
LineCount(s) == IF s = << >> THEN 0 ELSE NewLines(s) + 1

\* C29: RTTM rendering has exactly one SPEAKER line per segment of the
\* result, in input order, with the segment's start, its duration end - start
\* and its speaker.
C29_RttmLinePerSegment ==
    format = "rttm" =>
        /\ LineCount(rendered) = Len(result)
        /\ rendered = Join([i \in 1 .. Len(result) |-> RttmLine(result[i])])

\* ----------------------------------------- further claims about the tasks

\* The calls of process_audio_parallel that are in progress.
InProgress == {t \in TaskIds : pc[t] \notin {"idle", "returned", "raised"}}

\* C35: a task registered in active_tasks by process_audio_parallel is
\* removed from it when the call ends, whether it returns or raises and
\* whether cleanup() has marked the task cancelled or not; so active_tasks is
\* empty whenever no call is in progress.
C35_EndedCallsUnregistered ==
    /\ \A t \in TaskIds : pc[t] \in {"returned", "raised"} => t \notin active_tasks
    /\ InProgress = {} => active_tasks = {}

\* One call has returned and one has raised, none is in progress.
C35_Witness ==
    /\ \E t \in TaskIds, u \in TaskIds : pc[t] = "returned" /\ pc[u] = "raised"
    /\ InProgress = {}
    /\ active_tasks = {}

\* C36: each call of process_audio_parallel that registered a task counts
\* it once, as completed when it returns and as failed when it raises, so
\* total_tasks = completed_tasks + failed_tasks whenever no call is in
\* progress, also when a task fails while completed_tasks is 0.
C36_StatsCountEachCallOnce ==
    /\ stats.total_tasks = Cardinality({t \in TaskIds : pc[t] # "idle"})
    /\ stats.completed_tasks = Cardinality({t \in TaskIds : pc[t] = "returned"})
    /\ stats.failed_tasks = Cardinality({t \in TaskIds : pc[t] = "raised"})
    /\ InProgress = {} => stats.total_tasks = stats.completed_tasks + stats.failed_tasks

\* The first call to end has raised: it is counted as failed while
\* completed_tasks is 0, and no call is in progress.
C36_Witness ==
    /\ InProgress = {}
    /\ stats = [total_tasks |-> 1, completed_tasks |-> 0, failed_tasks |-> 1]

\* C37: process_audio_parallel called before initialize(), after cleanup()
\* or with a path to no file raises and leaves active_tasks and the
\* statistics as they were: no task is registered and no analyzer job is
\* submitted; a task is registered only by a call made on an initialized
\* service whose pool has not been shut down.
C37_RejectedCallChangesNothing ==
    [][/\ call_error' # call_error =>
            UNCHANGED <<active_tasks, stats, task, next_task, pool_queue, fut>>
       /\ active_tasks' \ active_tasks # {} => initialized /\ ~pool_shutdown]_vars

\* A call was rejected on a service that is not initialized: it has
\* processed one task and has been cleaned up.
C37_Witness ==
    /\ call_error = "RuntimeError"
    /\ pool_shutdown /\ ~cleaning /\ ~initialized
    /\ stats.total_tasks = 1 /\ active_tasks = {}

\* --------------------------------------- further claims about the batches

\* C31: every batch accepted by process_batch and not cancelled eventually
\* leaves active_jobs with status completed or completed_with_errors,
\* whatever its number of files and their outcomes are.
C31_BatchEventuallyFinalized ==
    \A b \in BatchIds :
        (b \in active_jobs)
        ~> \/ b \notin active_jobs /\ job[b].status \in {"completed", "completed_with_errors"}
           \/ job[b].status = "cancelled"

\* A file task that has not entered the body of "async with semaphore".
NotAdmittedYet == {"created", "waiting", "woken"}

\* C32: after cancel_batch has returned True for a batch, no file of it that
\* was still waiting for a worker slot is handed to the diarization service.
C32_CancelledFilesNotStarted ==
    [][\A b \in BatchIds, f \in FileIds :
          (job[b].status = "cancelled" /\ file[b][f].pc \in NotAdmittedYet)
          => file'[b][f].pc # "processing"]_vars

\* A batch was cancelled while one file was being processed and another
\* waited: the waiting one has ended without being recorded as processing,
\* the other one is still running.
C32_Witness ==
    \E b \in BatchIds, f \in FileIds, g \in FileIds :
        /\ job[b].status = "cancelled"
        /\ file[b][f].pc = "raised" /\ job[b].results[f].status = "none"
        /\ file[b][g].pc = "processing"

\* C33: each batch handed to process_batch is in exactly one of active_jobs,
\* completed_jobs and failed_jobs, and its status is the registry's:
\* processing in active_jobs, completed or completed_with_errors in
\* completed_jobs, failed or cancelled in failed_jobs.
C33_RegistryMatchesStatus ==
    \A b \in BatchIds :
        b < next_batch =>
            /\ Cardinality({R \in {"active", "completed", "failed"} :
                    \/ R = "active" /\ b \in active_jobs
                    \/ R = "completed" /\ b \in completed_jobs
                    \/ R = "failed" /\ b \in failed_jobs}) = 1
            /\ b \in active_jobs => job[b].status = "processing"
            /\ b \in completed_jobs =>
                  job[b].status \in {"completed", "completed_with_errors"}
            /\ b \in failed_jobs => job[b].status \in {"failed", "cancelled"}

\* A step in which cancel_batch returned.
CancelReturned ==
    /\ answer'.query = "cancel_batch"
    /\ answer.query = "cancel_batch" => answer'.value # answer.value

\* C34: cancel_batch(batch_id) returns True exactly when the batch is in
\* active_jobs, and then the batch has status cancelled and is found in
\* failed_jobs; otherwise (unknown, finished or already cancelled batch) it
\* returns False and leaves the registries and the batches as they were.
C34_CancelBatchReturn ==
    [][CancelReturned =>
         LET b == answer'.value.batch_id
         IN /\ answer'.value.returned <=> b \in active_jobs
            /\ IF b \in active_jobs
               THEN /\ job'[b].status = "cancelled"
                    /\ b \in failed_jobs' /\ b \notin active_jobs'
                    /\ b \notin completed_jobs'
               ELSE UNCHANGED <<job, active_jobs, completed_jobs, failed_jobs>>]_vars

\* A batch that was cancelled has been cancelled again, which returned False,
\* and it is in failed_jobs with status cancelled as before.
C34_Witness ==
    /\ answer.query = "cancel_batch"
    /\ ~answer.value.returned
    /\ job[answer.value.batch_id].status = "cancelled"
    /\ answer.value.batch_id \in failed_jobs

\* The batches of a registry that ended max_age_hours ago or later.
Newer(registry, max_age_hours) ==
    {b \in registry : ~(stamps[b].ended_at < utcnow - max_age_hours)}

\* C38: cleanup_old_jobs(max_age_hours) completes without error and removes
\* exactly the completed batches and the failed or cancelled batches that
\* ended more than max_age_hours ago; it keeps the newer ones and leaves
\* active_jobs and every batch as they are.
C38_CleanupRemovesOldJobs ==
    [][\A h \in 0 .. MaxAgeHours :
          CleanupOldJobs(h) =>
             /\ cleanup_error' = None
             /\ completed_jobs' = Newer(completed_jobs, h)
             /\ failed_jobs' = Newer(failed_jobs, h)
             /\ UNCHANGED <<active_jobs, job>>]_vars

\* ---------------------------------------- further claims about the matchers

\* C39: the three matchers agree: for every segment and every sequence of
\* turns the matcher of ParallelDiarizationService, the matcher of
\* DiarizationService and the matching loop of OriginalDiarizer select the
\* same speaker, or all select none.
C39_MatchersAgree ==
    impl # "none" =>
        /\ best = ParallelFindBestSpeaker(segments[1], turns)
        /\ best = FindBestSpeaker(segments[1], turns)
        /\ best = OriginalFindBestSpeaker(segments[1], turns)

\* The matcher of DiarizationService was given two turns of different
\* speakers that overlap the segment equally, and selected the first.
C39_Witness ==
    /\ impl = "service"
    /\ Len(turns) = 2
    /\ turns[1].speaker_id # turns[2].speaker_id
    /\ Overlap(segments[1], turns[1]) > 0
    /\ Overlap(segments[1], turns[1]) = Overlap(segments[1], turns[2])
    /\ best = turns[1].speaker_id

====
